---- MODULE Spec2Model ----
(***************************************************************************)
(* Model of the conclave agent's transport/concurrency pipeline:           *)
(*   - MessageHandler (src/src/message_handler.rs): a bounded tokio mpsc   *)
(*     channel whose receiving half sits behind an async Mutex, with       *)
(*     self-message filtering on the receiving side;                       *)
(*   - Processor (src/src/processor.rs): the UDP intake task and the LLM   *)
(*     processing task, wired together through the MessageHandler.         *)
(*                                                                         *)
(* The specifications share the variables:                                 *)
(*   SpecQueue  the MessageHandler API driven by one producer and two      *)
(*              consumer tasks calling its four operations in any order;   *)
(*   Spec       the program: the two tasks spawned by Processor and main;  *)
(*   SpecClose  Spec plus the event of the channel's receiving half being  *)
(*              closed, the state tokio reports as TrySendError::Closed;   *)
(*   SpecLive   Spec with every send succeeding and the LLM task          *)
(*              scheduled fairly;                                          *)
(*   SpecRetry  generate_llm_response_with_retries of llm.rs by itself;    *)
(*   SpecCodec  one message through the codec of message.rs / network.rs,  *)
(*              or foreign datagrams given to receive_message;             *)
(*   SpecOpen   NetworkManager::new, one socket call at a time;            *)
(*   SpecNet    send_message / receive_message calls on an open transport. *)
(***************************************************************************)
EXTENDS Integers, Sequences, FiniteSets, TLC

\* ---------------------------------------------------------------- bounds
\* ChannelConfig.buffer_size of the handler under test.
Capacity == 2

\* Number of messages created by the producer / datagrams read by the intake.
MaxMessages == 4

\* ------------------------------------------------------------- constants
\* generate_llm_response passes max_retries = 3.
MaxRetries == 3

\* ExponentialBackoff ... .take(5): at most five retries after the first try.
RetryTake == 5

\* ExponentialBackoff::from_millis(100)
BackoffBaseMs == 100

\* .max_delay(Duration::from_secs(10))
MaxDelayMs == 10000

\* The node's own agent_id, and the sender ids seen on the group.
AgentId == "A"

Senders == {"A", "B", "C"}

\* Tasks that call the receiving operations of the handler.  "llm" is the
\* LLM processing task of Processor; "c1" and "c2" are the consumers of
\* SpecQueue.
Callers == {"llm", "c1", "c2"}

Clients == {"c1", "c2"}

NoCaller == "none"

NoMessage == [sender_id |-> "none", content |-> 0]

VARIABLES
    queue,          \* buffered messages of the mpsc channel, head first
    rx_closed,      \* the receiving half has been closed
    lock_holder,    \* owner of the Mutex around the Receiver, or NoCaller
    lock_waiters,   \* tasks suspended in lock().await, in arrival order
    cpc,            \* per caller: position inside the receiving operation
    cret,           \* per caller: what its last receiving call returned
    ppc,            \* producer of SpecQueue: "idle" or suspended in send
    pmsg,           \* message held by the suspended send_message
    pret,           \* last result returned to the producer, with its call
    msg_count,      \* messages created so far (gives each a distinct content)
    pushed,         \* history: messages accepted by the channel, in order
    popped,         \* history: messages returned to consumers, in order
    intake_pc,      \* UDP intake task: "receive", "forward", "done"
    intake_msg,     \* message held between receive and try_send
    intake_last,    \* outcome of the last network receive
    intake_try,     \* outcome of the last try_send_message
    intake_result,  \* value the intake task returned: "running", "Err"
    proc_pc,        \* LLM task: "start","loop","pop","generate","say","send","done"
    proc_msg,       \* message being answered
    proc_reply,     \* reply content kind: "none", "response", "error"
    proc_result,    \* value the LLM task returned: "running", "Err"
    inner_attempt,  \* failed provider calls inside the current generate call
    outer_attempt,  \* failed generate_llm_response calls for this message
    sleeps,         \* history: delays slept for the current message (ms)
    sent,           \* history: messages passed to NetworkManager::send_message
    main_pc,        \* main: "joining" in try_join!, "exited" once it returned
    exit_code,      \* exit status of the process once main has returned
    c_pc,           \* codec run: "message", "envelope", "wire", "received",
                    \*   "unwrapped", "encoded", "decoded"; "off" elsewhere
    c_in,           \* codec run: the message and threshold given to send
    c_env,          \* codec run: the CompressedAgentMessage built by send
    c_wire,         \* codec run: the datagram bytes
    c_out,          \* codec run: the result of receive_message
    o_pc,           \* NetworkManager::new: the step it is at
    o_cfg,          \* NetworkManager::new: the NetworkConfig given
    o_ops,          \* NetworkManager::new: socket operations performed
    o_result,       \* NetworkManager::new: the value returned
    say_last,       \* LLM task: result of say for the reply about to be sent
    n_inbox,        \* socket: datagrams delivered and not yet read, oldest first
    n_rx,           \* history: recv_from calls made on the socket
    n_tx,           \* history: send_to calls made on the socket
    n_calls,        \* history: finished send_message / receive_message calls
    g_pc,           \* generate_llm_response_with_retries: "off", "loop",
                    \*   "returned"
    g_max_retries,  \* its argument max_retries
    g_attempt,      \* the loop variable attempt
    g_last_error,   \* the local last_error: "None" or the error kept
    g_log,          \* history: provider calls and sleeps of the run
    g_result        \* the value returned

chanVars   == <<queue, rx_closed>>
lockVars   == <<lock_holder, lock_waiters>>
callVars   == <<cpc, cret>>
prodVars   == <<ppc, pmsg, pret>>
histVars   == <<pushed, popped>>
intakeVars == <<intake_pc, intake_msg, intake_last, intake_try, intake_result>>
procVars   == <<proc_pc, proc_msg, proc_reply, proc_result, inner_attempt,
                outer_attempt, sleeps, sent, say_last>>
mainVars   == <<main_pc, exit_code>>
codecVars  == <<c_pc, c_in, c_env, c_wire, c_out>>
openVars   == <<o_pc, o_cfg, o_ops, o_result>>
netVars    == <<n_inbox, n_rx, n_tx, n_calls>>
retryVars  == <<g_pc, g_max_retries, g_attempt, g_last_error, g_log, g_result>>

vars == <<queue, rx_closed, lock_holder, lock_waiters, cpc, cret, ppc, pmsg,
          pret, msg_count, pushed, popped, intake_pc, intake_msg, intake_last,
          intake_try, intake_result, proc_pc, proc_msg, proc_reply,
          proc_result, inner_attempt, outer_attempt, sleeps, sent, main_pc,
          exit_code, c_pc, c_in, c_env, c_wire, c_out, o_pc, o_cfg, o_ops,
          o_result, say_last, n_inbox, n_rx, n_tx, n_calls, g_pc,
          g_max_retries, g_attempt, g_last_error, g_log, g_result>>

\* ------------------------------------------------------------- messages
\* AgentMessage::new: the content stands for the text; msg_count makes the
\* messages of one run pairwise distinct so that order is observable.
NewMessage(sender, n) == [sender_id |-> sender, content |-> n]

\* message.sender_id == self.agent_id
IsSelfNever(m) == FALSE

IsSelf(m) == m.sender_id = AgentId

\* ------------------------------------------------- the mpsc channel (tokio)
\* A value accepted by the channel goes to the tail of the buffer.
ChanPushFront(q, m) == <<m>> \o q

ChanPushSkipSelf(q, m) == IF m.sender_id = AgentId THEN q ELSE Append(q, m)

ChanPush(q, m) == Append(q, m)

\* recv / try_recv hand out the value at the head and remove it.
ChanKeepHead(q) == q

ChanTake(q) == Tail(q)

\* try_send: Closed when the receiving half is closed, Full when no permit
\* is left, Ok otherwise.
TrySendNeverFull(q, closed) ==
    IF closed THEN "Closed" ELSE "Ok"

TrySendFullOffByOne(q, closed) ==
    IF closed THEN "Closed"
    ELSE IF Len(q) > Capacity THEN "Full"
    ELSE "Ok"

TrySendOutcome(q, closed) ==
    IF closed THEN "Closed"
    ELSE IF Len(q) >= Capacity THEN "Full"
    ELSE "Ok"

\* MessageHandler::try_send_message maps the channel outcome to its result.
TrySendResult(outcome) ==
    CASE outcome = "Ok"     -> "Ok"
      [] outcome = "Full"   -> "ChannelSendError: Channel buffer full"
      [] outcome = "Closed" -> "ChannelClosed"

InitProgram ==
    /\ queue = <<>>
    /\ rx_closed = FALSE
    /\ lock_holder = NoCaller
    /\ lock_waiters = <<>>
    /\ cpc = [c \in Callers |-> "idle"]
    /\ cret = [c \in Callers |-> [kind |-> "none", msg |-> NoMessage]]
    /\ ppc = "idle"
    /\ pmsg = NoMessage
    /\ pret = [op |-> "none", result |-> "none", msg |-> NoMessage]
    /\ msg_count = 0
    /\ pushed = <<>>
    /\ popped = <<>>
    /\ intake_pc = "receive"
    /\ intake_msg = NoMessage
    /\ intake_last = "none"
    /\ intake_try = "none"
    /\ intake_result = "running"
    /\ proc_pc = "start"
    /\ proc_msg = NoMessage
    /\ proc_reply = "none"
    /\ proc_result = "running"
    /\ inner_attempt = 0
    /\ outer_attempt = 0
    /\ sleeps = <<>>
    /\ sent = <<>>
    /\ say_last = "none"
    /\ main_pc = "joining"
    /\ exit_code = -1

\* No message is in the codec.
CodecIdle ==
    /\ c_pc = "off"
    /\ c_in = <<>>
    /\ c_env = <<>>
    /\ c_wire = <<>>
    /\ c_out = <<>>

\* No transport is being opened.
OpenIdle ==
    /\ o_pc = "off"
    /\ o_cfg = <<>>
    /\ o_ops = <<>>
    /\ o_result = <<>>

\* Nothing has reached the socket and no call was made on the transport.
NetIdle ==
    /\ n_inbox = <<>>
    /\ n_rx = <<>>
    /\ n_tx = <<>>
    /\ n_calls = <<>>

\* generate_llm_response_with_retries is not being run on its own.
RetryIdle ==
    /\ g_pc = "off"
    /\ g_max_retries = 0
    /\ g_attempt = 0
    /\ g_last_error = "None"
    /\ g_log = <<>>
    /\ g_result = <<>>

Init == InitProgram /\ CodecIdle /\ OpenIdle /\ NetIdle /\ RetryIdle

\* ------------------------------------------- MessageHandler, receiving side
\* Position a task suspended in lock().await takes up once it owns the lock.
AfterLock(pc) == IF pc = "recv_lock" THEN "recv_wait" ELSE "try_recv"

\* let mut receiver = self.message_receiver.lock().await;
\* The tokio Mutex is fair: a free lock is taken at once, otherwise the
\* caller queues behind the earlier waiters.
CallReceive(c, op) ==
    /\ cpc[c] = "idle"
    /\ IF lock_holder = NoCaller /\ lock_waiters = <<>>
       THEN /\ lock_holder' = c
            /\ lock_waiters' = lock_waiters
            /\ cpc' = [cpc EXCEPT ![c] = AfterLock(op)]
       ELSE /\ lock_holder' = lock_holder
            /\ lock_waiters' = Append(lock_waiters, c)
            /\ cpc' = [cpc EXCEPT ![c] = op]
    /\ cret' = cret

\* The operation returns: the guard is dropped and the lock is handed to
\* the longest-waiting task, if any.
ReturnFrom(c, result) ==
    /\ cret' = [cret EXCEPT ![c] = result]
    /\ IF lock_waiters = <<>>
       THEN /\ lock_holder' = NoCaller
            /\ lock_waiters' = lock_waiters
            /\ cpc' = [cpc EXCEPT ![c] = "idle"]
       ELSE /\ lock_holder' = Head(lock_waiters)
            /\ lock_waiters' = Tail(lock_waiters)
            /\ cpc' = [cpc EXCEPT ![c] = "idle",
                                  ![Head(lock_waiters)] = AfterLock(@)]

\* MessageHandler keeps message_sender next to message_receiver, so a
\* Sender of the channel exists as long as the handler does, whether the
\* task that produces is still running or not.
SenderAliveWhileProducing(producer_done) == ~producer_done

SenderAlive(producer_done) == TRUE

\* The empty channel reports that it is disconnected (recv: None, try_recv:
\* Disconnected) once the receiver was closed or no Sender is left.
Disconnected == rx_closed \/ ~SenderAlive(intake_pc = "done")

\* One turn of the loop of receive_message: receiver.recv().await.
\* Suspended (disabled) while the buffer is empty and the channel is open.
RecvStep(c) ==
    /\ cpc[c] = "recv_wait"
    /\ lock_holder = c
    /\ IF queue # <<>>
       THEN /\ queue' = ChanTake(queue)
            /\ IF IsSelf(Head(queue))
               THEN /\ UNCHANGED <<lock_holder, lock_waiters, cpc, cret>>
                    /\ popped' = popped
               ELSE /\ ReturnFrom(c, [kind |-> "Ok", msg |-> Head(queue)])
                    /\ popped' = Append(popped, Head(queue))
       ELSE /\ Disconnected
            /\ queue' = queue
            /\ popped' = popped
            /\ ReturnFrom(c, [kind |-> "ChannelClosed", msg |-> NoMessage])
    /\ UNCHANGED <<rx_closed, pushed>>

\* What try_receive_message does after it dropped a self message:
\* `continue`, the loop looks at the next buffered message.
TryRecvAfterSelfGiveUp == "return"

TryRecvAfterSelf == "continue"

\* One turn of the loop of try_receive_message: receiver.try_recv().
TryRecvStep(c) ==
    /\ cpc[c] = "try_recv"
    /\ lock_holder = c
    /\ IF queue # <<>>
       THEN /\ queue' = ChanTake(queue)
            /\ IF IsSelf(Head(queue))
               THEN /\ IF TryRecvAfterSelf = "continue"
                       THEN UNCHANGED <<lock_holder, lock_waiters, cpc, cret>>
                       ELSE ReturnFrom(c, [kind |-> "None",
                                           msg |-> NoMessage])
                    /\ popped' = popped
               ELSE /\ ReturnFrom(c, [kind |-> "Some", msg |-> Head(queue)])
                    /\ popped' = Append(popped, Head(queue))
       ELSE /\ queue' = queue
            /\ popped' = popped
            /\ ReturnFrom(c, [kind |-> IF Disconnected THEN "ChannelClosed"
                                                       ELSE "None",
                              msg |-> NoMessage])
    /\ UNCHANGED <<rx_closed, pushed>>

\* --------------------------------------------- MessageHandler, sending side
\* try_send_message(message): never suspends.
TrySendMessage(m) ==
    LET outcome == TrySendOutcome(queue, rx_closed) IN
    /\ queue' = IF outcome = "Ok" THEN ChanPush(queue, m) ELSE queue
    /\ pushed' = IF outcome = "Ok" THEN Append(pushed, m) ELSE pushed
    /\ UNCHANGED <<rx_closed, popped>>

\* ------------------------------------------------ clients of SpecQueue
ClientPop(c) ==
    /\ c \in Clients
    /\ CallReceive(c, "recv_lock")
    /\ UNCHANGED <<chanVars, prodVars, msg_count, histVars, intakeVars,
                   procVars>>
    /\ UNCHANGED <<mainVars, retryVars, codecVars, openVars, netVars>>

ClientTryPop(c) ==
    /\ c \in Clients
    /\ CallReceive(c, "try_lock")
    /\ UNCHANGED <<chanVars, prodVars, msg_count, histVars, intakeVars,
                   procVars>>
    /\ UNCHANGED <<mainVars, retryVars, codecVars, openVars, netVars>>

ClientRecvStep(c) ==
    /\ c \in Clients
    /\ RecvStep(c)
    /\ UNCHANGED <<prodVars, msg_count, intakeVars, procVars>>
    /\ UNCHANGED <<mainVars, retryVars, codecVars, openVars, netVars>>

ClientTryRecvStep(c) ==
    /\ c \in Clients
    /\ TryRecvStep(c)
    /\ UNCHANGED <<prodVars, msg_count, intakeVars, procVars>>
    /\ UNCHANGED <<mainVars, retryVars, codecVars, openVars, netVars>>

\* The producer calls try_send_message.
ProducerTrySend(s) ==
    /\ ppc = "idle"
    /\ msg_count < MaxMessages
    /\ msg_count' = msg_count + 1
    /\ TrySendMessage(NewMessage(s, msg_count + 1))
    /\ pret' = [op |-> "try_send_message",
                result |-> TrySendResult(TrySendOutcome(queue, rx_closed)),
                msg |-> NewMessage(s, msg_count + 1)]
    /\ UNCHANGED <<ppc, pmsg, lockVars, callVars, intakeVars, procVars>>
    /\ UNCHANGED <<mainVars, retryVars, codecVars, openVars, netVars>>

\* The producer calls send_message: self.message_sender.send(message).await.
\* It completes at once when a slot is free and suspends otherwise.
ProducerSend(s) ==
    /\ ppc = "idle"
    /\ msg_count < MaxMessages
    /\ msg_count' = msg_count + 1
    /\ LET m == NewMessage(s, msg_count + 1)
           outcome == TrySendOutcome(queue, rx_closed) IN
       /\ queue' = IF outcome = "Ok" THEN ChanPush(queue, m) ELSE queue
       /\ pushed' = IF outcome = "Ok" THEN Append(pushed, m) ELSE pushed
       /\ ppc' = IF outcome = "Full" THEN "send_wait" ELSE "idle"
       /\ pmsg' = IF outcome = "Full" THEN m ELSE NoMessage
       /\ pret' = IF outcome = "Full" THEN pret
                  ELSE [op |-> "send_message",
                        result |-> IF outcome = "Ok" THEN "Ok"
                                   ELSE "ChannelSendError: receiver dropped",
                        msg |-> m]
    /\ UNCHANGED <<rx_closed, popped, lockVars, callVars, intakeVars,
                   procVars>>
    /\ UNCHANGED <<mainVars, retryVars, codecVars, openVars, netVars>>

\* The suspended send_message is woken: a slot was freed or the receiver
\* was closed.
SendWakesNever(q, closed) == FALSE

SendWakes(q, closed) == TrySendOutcome(q, closed) # "Full"

ProducerSendComplete ==
    /\ ppc = "send_wait"
    /\ SendWakes(queue, rx_closed)
    /\ LET outcome == TrySendOutcome(queue, rx_closed) IN
       /\ queue' = IF outcome = "Ok" THEN ChanPush(queue, pmsg) ELSE queue
       /\ pushed' = IF outcome = "Ok" THEN Append(pushed, pmsg) ELSE pushed
       /\ pret' = [op |-> "send_message",
                   result |-> IF outcome = "Ok" THEN "Ok"
                              ELSE "ChannelSendError: receiver dropped",
                   msg |-> pmsg]
    /\ ppc' = "idle"
    /\ pmsg' = NoMessage
    /\ UNCHANGED <<rx_closed, popped, msg_count, lockVars, callVars,
                   intakeVars, procVars>>
    /\ UNCHANGED <<mainVars, retryVars, codecVars, openVars, netVars>>

NextQueue ==
    \/ \E c \in Clients : ClientPop(c)
    \/ \E c \in Clients : ClientTryPop(c)
    \/ \E c \in Clients : ClientRecvStep(c)
    \/ \E c \in Clients : ClientTryRecvStep(c)
    \/ \E s \in Senders : ProducerTrySend(s)
    \/ \E s \in Senders : ProducerSend(s)
    \/ ProducerSendComplete

SpecQueue == Init /\ [][NextQueue]_vars

\* ------------------------------------------------------ NetworkManager
\* Datagrams the group can deliver to receive_message: a well-formed record
\* from some sender, bytes that do not decode, or a failing recv_from.
Datagrams ==
    [kind : {"valid"}, sender : Senders]
      \cup {[kind |-> "malformed", sender |-> "none"],
            [kind |-> "io_error", sender |-> "none"]}

\* NetworkManager::receive_message: the result for one datagram.
ReceiveOutcome(d) ==
    CASE d.kind = "valid"     -> "Ok"
      [] d.kind = "malformed" -> "DeserializationError"
      [] d.kind = "io_error"  -> "ReceiveError"

\* NetworkManager::send_message either transmits or fails with SendError.
SendOutcomes == {"Ok", "SendError"}

\* ------------------------------------------- Processor: UDP intake task
\* The match on network_manager.receive_message().await: where the loop
\* goes for each result.
IntakeOnReceiveDecodeFatal(outcome) ==
    IF outcome = "Ok" THEN "forward" ELSE "done"

IntakeOnReceiveIoIgnored(outcome) ==
    IF outcome = "Ok" THEN "forward" ELSE "receive"

IntakeOnReceive(outcome) ==
    CASE outcome = "Ok"                   -> "forward"
      [] outcome = "DeserializationError" -> "receive"
      [] OTHER                            -> "done"

\* if let Err(e) = message_handler.try_send_message(..) { warn!(..) }:
\* every result of try_send_message leads back to the top of the loop.
IntakeOnTrySendFullFatal(result) ==
    IF result = "Ok" THEN "receive" ELSE "done"

IntakeOnTrySend(result) == "receive"

IntakeReceive(d) ==
    /\ main_pc = "joining"
    /\ intake_pc = "receive"
    /\ msg_count < MaxMessages
    /\ msg_count' = msg_count + 1
    /\ intake_last' = ReceiveOutcome(d)
    /\ intake_pc' = IntakeOnReceive(ReceiveOutcome(d))
    /\ intake_msg' = IF ReceiveOutcome(d) = "Ok"
                     THEN NewMessage(d.sender, msg_count + 1)
                     ELSE NoMessage
    /\ intake_result' = IF IntakeOnReceive(ReceiveOutcome(d)) = "done"
                        THEN "Err" ELSE intake_result
    /\ UNCHANGED <<intake_try, chanVars, lockVars, callVars, prodVars,
                   histVars, procVars>>
    /\ UNCHANGED <<mainVars, retryVars, codecVars, openVars, netVars>>

\* After the pacing sleep: try_send_message(message.clone()).
IntakeForward ==
    /\ main_pc = "joining"
    /\ intake_pc = "forward"
    /\ TrySendMessage(intake_msg)
    /\ intake_try' = TrySendResult(TrySendOutcome(queue, rx_closed))
    /\ intake_pc' =
           IntakeOnTrySend(TrySendResult(TrySendOutcome(queue, rx_closed)))
    /\ intake_result' =
           IF IntakeOnTrySend(TrySendResult(TrySendOutcome(queue, rx_closed)))
                = "done"
           THEN "Err" ELSE intake_result
    /\ intake_msg' = NoMessage
    /\ UNCHANGED <<intake_last, msg_count, lockVars, callVars, prodVars,
                   procVars>>
    /\ UNCHANGED <<mainVars, retryVars, codecVars, openVars, netVars>>

\* ------------------------------------------ Processor: LLM processing task
\* Record of one call of network_manager.send_message in the history.
SentEntry(kind, replyTo, content, outcome) ==
    [sender_id |-> AgentId, kind |-> kind, reply_to |-> replyTo,
     content |-> content, outcome |-> outcome]

\* Where the task goes once the bootstrap step is over.
ProcAfterStart(outcome) == IF outcome = "Ok" THEN "loop" ELSE "done"

\* The greeting is built and handed to send_message before the loop.
GreetingSentNone(log, outcome) == log

GreetingSent(log, outcome) ==
    Append(log, SentEntry("greeting", 0, "greeting", outcome))

\* AgentMessage::new(agent_id, "Hi, I am {agent_id}.") and
\* network_manager.send_message(&response_message).await?
ProcStart(outcome) ==
    /\ main_pc = "joining"
    /\ proc_pc = "start"
    /\ sent' = GreetingSent(sent, outcome)
    /\ proc_pc' = ProcAfterStart(outcome)
    /\ proc_result' = IF ProcAfterStart(outcome) = "done"
                      THEN "Err" ELSE proc_result
    /\ UNCHANGED <<proc_msg, proc_reply, inner_attempt, outer_attempt, sleeps,
                   say_last, chanVars, lockVars, callVars, prodVars,
                   msg_count, histVars, intakeVars>>
    /\ UNCHANGED <<mainVars, retryVars, codecVars, openVars, netVars>>

\* Top of the loop: message_handler.receive_message().await is entered.
ProcCallPop ==
    /\ main_pc = "joining"
    /\ proc_pc = "loop"
    /\ CallReceive("llm", "recv_lock")
    /\ proc_pc' = "pop"
    /\ UNCHANGED <<proc_msg, proc_reply, proc_result, inner_attempt,
                   outer_attempt, sleeps, sent, say_last, chanVars, prodVars,
                   msg_count, histVars, intakeVars>>
    /\ UNCHANGED <<mainVars, retryVars, codecVars, openVars, netVars>>

\* receive_message makes one turn of its loop; when it returns, the match
\* in the task takes the message or fails on the channel error.
ProcRecv ==
    /\ main_pc = "joining"
    /\ proc_pc = "pop"
    /\ RecvStep("llm")
    /\ IF cpc'["llm"] # "idle"
       THEN UNCHANGED <<proc_pc, proc_msg, proc_result, sleeps>>
       ELSE IF cret'["llm"].kind = "Ok"
       THEN /\ proc_pc' = "generate"
            /\ proc_msg' = cret'["llm"].msg
            /\ sleeps' = <<>>
            /\ proc_result' = proc_result
       ELSE /\ proc_pc' = "done"
            /\ proc_result' = "Err"
            /\ UNCHANGED <<proc_msg, sleeps>>
    /\ UNCHANGED <<proc_reply, inner_attempt, outer_attempt, sent, say_last,
                   prodVars, msg_count, intakeVars>>
    /\ UNCHANGED <<mainVars, retryVars, codecVars, openVars, netVars>>

\* tokio_retry's ExponentialBackoff::from_millis(base).max_delay(max):
\* next() yields `current`, or max when current exceeds it, and multiplies
\* current by base only when the delay was not cut.
RECURSIVE BackoffCurrent(_)
BackoffCurrent(k) ==
    IF k = 0 THEN BackoffBaseMs
    ELSE IF BackoffCurrent(k - 1) > MaxDelayMs
         THEN BackoffCurrent(k - 1)
         ELSE BackoffCurrent(k - 1) * BackoffBaseMs

\* The delay slept before retry number k + 1 (k = 0, 1, ..).
BackoffDelay(k) ==
    IF BackoffCurrent(k) > MaxDelayMs THEN MaxDelayMs ELSE BackoffCurrent(k)

\* let response_content = match llm_call_result { Ok(response) => response,
\* Err(e) => e.to_string() }: the reply text for either result.
ReplyContent(result) == IF result = "Ok" THEN "response" ELSE "error"

\* Where the task goes once Retry::spawn has returned: both arms of the
\* match fall through to say and send.
AfterGenerateAbortOnErr(result) == IF result = "Ok" THEN "say" ELSE "done"

AfterGenerate(result) == "say"

\* std::time::Duration::from_millis(1000 * (attempt + 1)) in
\* generate_llm_response_with_retries.
InnerDelay(attempt) == 1000 * (attempt + 1)

\* `if attempt < max_retries` in generate_llm_response_with_retries: a
\* failed attempt is followed by a sleep and another turn of
\* `for attempt in 0..=max_retries`; the last one is not.
RetryLeftInclusive(attempt, max_retries) == attempt <= max_retries

RetryLeft(attempt, max_retries) == attempt < max_retries

\* The strategy given to Retry::spawn ends after .take(5) delays: a failed
\* generate_llm_response is tried again while a delay is left.
OuterRetryLeftOneMore(k) == k <= RetryTake

OuterRetryLeft(k) == k < RetryTake

\* One call of self.provider.chat(messages) inside
\* generate_llm_response_with_retries(messages, 3), itself run under
\* Retry::spawn(ExponentialBackoff.., ..).
ProcProviderCall(ok) ==
    /\ main_pc = "joining"
    /\ proc_pc = "generate"
    /\ IF ok
       THEN /\ proc_reply' = ReplyContent("Ok")
            /\ proc_pc' = AfterGenerate("Ok")
            /\ inner_attempt' = 0
            /\ outer_attempt' = 0
            /\ sleeps' = sleeps
            /\ proc_result' = proc_result
       ELSE IF RetryLeft(inner_attempt, MaxRetries)
       THEN /\ sleeps' = Append(sleeps, [kind |-> "inner",
                                         ms |-> InnerDelay(inner_attempt)])
            /\ inner_attempt' = inner_attempt + 1
            /\ UNCHANGED <<proc_reply, proc_pc, outer_attempt, proc_result>>
       ELSE IF OuterRetryLeft(outer_attempt)
       THEN /\ sleeps' = Append(sleeps, [kind |-> "outer",
                                         ms |-> BackoffDelay(outer_attempt)])
            /\ outer_attempt' = outer_attempt + 1
            /\ inner_attempt' = 0
            /\ UNCHANGED <<proc_reply, proc_pc, proc_result>>
       ELSE /\ proc_reply' = ReplyContent("Err")
            /\ proc_pc' = AfterGenerate("Err")
            /\ proc_result' = IF AfterGenerate("Err") = "done"
                              THEN "Err" ELSE proc_result
            /\ inner_attempt' = 0
            /\ outer_attempt' = 0
            /\ sleeps' = sleeps
    /\ UNCHANGED <<proc_msg, sent, say_last, chanVars, lockVars, callVars,
                   prodVars, msg_count, histVars, intakeVars>>
    /\ UNCHANGED <<mainVars, retryVars, codecVars, openVars, netVars>>

\* match llm_module.say(&response_content).await { Ok(_) => info!(..),
\* Err(e) => error!(..) }: either result is only logged.
ProcAfterSayAbortOnErr(result) == IF result = "Ok" THEN "send" ELSE "done"

ProcAfterSaySkipSend(result) == "loop"

ProcAfterSay(result) == "send"

SayResult(ok) == IF ok THEN "Ok" ELSE "Err"

ProcSay(ok) ==
    /\ main_pc = "joining"
    /\ proc_pc = "say"
    /\ say_last' = SayResult(ok)
    /\ proc_pc' = ProcAfterSay(SayResult(ok))
    /\ proc_result' = IF ProcAfterSay(SayResult(ok)) = "done"
                      THEN "Err" ELSE proc_result
    /\ UNCHANGED <<proc_msg, proc_reply, inner_attempt, outer_attempt,
                   sleeps, sent, chanVars, lockVars, callVars, prodVars,
                   msg_count, histVars, intakeVars>>
    /\ UNCHANGED <<mainVars, retryVars, codecVars, openVars, netVars>>

\* network_manager.send_message(&response_message).await? on a reply: Ok
\* goes round the loop, an error returns from the task.
ProcAfterSendIgnoreErr(outcome) == "loop"

ProcAfterSend(outcome) == IF outcome = "Ok" THEN "loop" ELSE "done"

\* AgentMessage::new(agent_id, response_content) and
\* network_manager.send_message(&response_message).await?
ProcSend(outcome) ==
    /\ main_pc = "joining"
    /\ proc_pc = "send"
    /\ sent' = Append(sent, SentEntry("reply", proc_msg.content, proc_reply,
                                      outcome))
    /\ proc_pc' = ProcAfterSend(outcome)
    /\ proc_result' = IF ProcAfterSend(outcome) = "done"
                      THEN "Err" ELSE proc_result
    /\ proc_msg' = NoMessage
    /\ proc_reply' = "none"
    /\ say_last' = "none"
    /\ UNCHANGED <<inner_attempt, outer_attempt, sleeps, chanVars, lockVars,
                   callVars, prodVars, msg_count, histVars, intakeVars>>
    /\ UNCHANGED <<mainVars, retryVars, codecVars, openVars, netVars>>

\* ------------------------------------------------------------------ main
\* tokio::try_join!(udp_intake_handle, llm_processing_handle): resolves when
\* both handles have completed, or as soon as one of them yields a
\* JoinError (the task panicked).  A task that returned Err(String) has
\* completed normally as far as try_join! is concerned.
JoinResolvedOnFirstErr(ir, pr) == ir # "running" \/ pr # "running"

JoinResolved(ir, pr) ==
    \/ ir = "Panic"
    \/ pr = "Panic"
    \/ ir # "running" /\ pr # "running"

\* Both arms of `match result` only log; main then returns Ok(()).
ExitCode(ir, pr) == 0

\* main returns; the runtime is dropped and with it every task.
MainJoin ==
    /\ main_pc = "joining"
    /\ JoinResolved(intake_result, proc_result)
    /\ main_pc' = "exited"
    /\ exit_code' = ExitCode(intake_result, proc_result)
    /\ UNCHANGED <<chanVars, lockVars, callVars, prodVars, msg_count,
                   histVars, intakeVars, procVars, codecVars, openVars,
                   netVars, retryVars>>

Next ==
    \/ \E d \in Datagrams : IntakeReceive(d)
    \/ IntakeForward
    \/ \E o \in SendOutcomes : ProcStart(o)
    \/ ProcCallPop
    \/ ProcRecv
    \/ \E ok \in BOOLEAN : ProcProviderCall(ok)
    \/ \E ok \in BOOLEAN : ProcSay(ok)
    \/ \E o \in SendOutcomes : ProcSend(o)
    \/ MainJoin

Spec == Init /\ [][Next]_vars

\* The program when every send_message succeeds: neither task is ended by
\* the other side of the socket, so main stays in try_join!.
\* Datagrams of the runs in which every call returns: all of Datagrams but
\* those of the second peer, which behaves as the first.
LiveDatagrams == {d \in Datagrams : d.sender # "C"}

NextLive ==
    \/ \E d \in LiveDatagrams : IntakeReceive(d)
    \/ IntakeForward
    \/ ProcStart("Ok")
    \/ ProcCallPop
    \/ ProcRecv
    \/ \E ok \in BOOLEAN : ProcProviderCall(ok)
    \/ \E ok \in BOOLEAN : ProcSay(ok)
    \/ ProcSend("Ok")

\* A step of the LLM task.  The runtime polls a spawned task whenever it is
\* ready, and provider.chat, say and send_message are taken to return.
ProcTaskStep ==
    \/ ProcStart("Ok")
    \/ ProcCallPop
    \/ ProcRecv
    \/ \E ok \in BOOLEAN : ProcProviderCall(ok)
    \/ \E ok \in BOOLEAN : ProcSay(ok)
    \/ ProcSend("Ok")

SpecLive == Init /\ [][NextLive]_vars /\ WF_vars(ProcTaskStep)

\* The receiving half of the channel is closed (tokio: Receiver::close or
\* drop).  MessageHandler never does this itself; the step exists to drive
\* the Closed arms of its operations.
ReceiverClosed ==
    /\ ~rx_closed
    /\ rx_closed' = TRUE
    /\ UNCHANGED <<queue, lockVars, callVars, prodVars, msg_count, histVars,
                   intakeVars, procVars>>
    /\ UNCHANGED <<mainVars, retryVars, codecVars, openVars, netVars>>

NextClose ==
    \/ Next
    \/ ReceiverClosed

SpecClose == Init /\ [][NextClose]_vars

\* ====================================== the retry helper by itself (llm.rs)
\* Largest max_retries given to generate_llm_response_with_retries.
MaxRetriesArg == 4

\* Errors self.provider.chat(messages) can return.
ProviderErrors == {"timeout", "http"}

ProviderResults == {"Ok"} \cup ProviderErrors

\* One entry of the history of a run of the helper.
RetryEvent(ev, attempt, result, ms) ==
    [ev |-> ev, attempt |-> attempt, result |-> result, ms |-> ms]

\* last_error = Some(e): the error of the attempt that just failed replaces
\* the one kept before.
KeepError(last_error, e) == e

InitRetry ==
    /\ InitProgram
    /\ CodecIdle
    /\ OpenIdle
    /\ NetIdle
    /\ g_pc = "entry"
    /\ g_max_retries = 0
    /\ g_attempt = 0
    /\ g_last_error = "None"
    /\ g_log = <<>>
    /\ g_result = <<>>

OtherThanRetry ==
    <<chanVars, lockVars, callVars, prodVars, msg_count, histVars,
      intakeVars, procVars, mainVars, codecVars, openVars, netVars>>

\* generate_llm_response(messages):
\* self.generate_llm_response_with_retries(messages, 3).await
GenerateLlmResponse ==
    /\ g_pc = "entry"
    /\ g_max_retries' = MaxRetries
    /\ g_log' = Append(g_log, RetryEvent("generate_llm_response", 0, "", 0))
    /\ g_pc' = "loop"
    /\ UNCHANGED <<g_attempt, g_last_error, g_result>>
    /\ UNCHANGED OtherThanRetry

\* generate_llm_response_with_retries(messages, n) called directly.
GenerateWithRetries(n) ==
    /\ g_pc = "entry"
    /\ g_max_retries' = n
    /\ g_log' = Append(g_log, RetryEvent("with_retries", 0, "", 0))
    /\ g_pc' = "loop"
    /\ UNCHANGED <<g_attempt, g_last_error, g_result>>
    /\ UNCHANGED OtherThanRetry

\* One turn of `for attempt in 0..=max_retries`: the provider is called and
\* returns r.
RetryAttempt(r) ==
    /\ g_pc = "loop"
    /\ LET called == Append(g_log, RetryEvent("chat", g_attempt, r, 0)) IN
       IF r = "Ok"
       THEN /\ g_log' = called
            /\ g_pc' = "returned"
            /\ g_result' = [ok |-> TRUE, value |-> "response"]
            /\ UNCHANGED <<g_attempt, g_last_error>>
       ELSE /\ g_last_error' = KeepError(g_last_error, r)
            /\ IF RetryLeft(g_attempt, g_max_retries)
               THEN /\ g_log' = Append(called,
                                       RetryEvent("sleep", g_attempt, "",
                                                  InnerDelay(g_attempt)))
                    /\ g_attempt' = g_attempt + 1
                    /\ UNCHANGED <<g_pc, g_result>>
               ELSE /\ g_log' = called
                    /\ g_pc' = "returned"
                    /\ g_result' = [ok |-> FALSE,
                                    value |-> KeepError(g_last_error, r)]
                    /\ UNCHANGED g_attempt
    /\ UNCHANGED g_max_retries
    /\ UNCHANGED OtherThanRetry

NextRetry ==
    \/ GenerateLlmResponse
    \/ \E n \in 0..MaxRetriesArg : GenerateWithRetries(n)
    \/ \E r \in ProviderResults : RetryAttempt(r)

SpecRetry == InitRetry /\ [][NextRetry]_vars

\* ===================================================== wire codec (message.rs)
\* Strings and byte vectors are sequences of bytes 0..255; a String is the
\* sequence of its UTF-8 bytes, so Len is the Rust len().

\* Length in bytes of the UTF-8 sequence a lead byte announces, 0 when the
\* byte cannot start a sequence.
Utf8SeqLen(b) ==
    IF b < 128 THEN 1
    ELSE IF b >= 194 /\ b <= 223 THEN 2
    ELSE IF b >= 224 /\ b <= 239 THEN 3
    ELSE IF b >= 240 /\ b <= 244 THEN 4
    ELSE 0

IsContinuation(b) == b >= 128 /\ b <= 191

\* String::from_utf8 / read_to_string accept exactly the well-formed
\* sequences (checked here up to the lead/continuation structure).
RECURSIVE ValidUtf8(_)
ValidUtf8(bytes) ==
    IF bytes = <<>> THEN TRUE
    ELSE LET n == Utf8SeqLen(Head(bytes)) IN
         /\ n > 0
         /\ Len(bytes) >= n
         /\ \A i \in 2..n : IsContinuation(bytes[i])
         /\ ValidUtf8(SubSeq(bytes, n + 1, Len(bytes)))

\* String::from_utf8_lossy(..).to_string(): well-formed input is kept, any
\* other input comes back with U+FFFD in it.
Utf8Lossy(bytes) ==
    IF ValidUtf8(bytes) THEN bytes ELSE <<239, 191, 189>>

\* content.starts_with(prefix)
StartsWith(text, prefix) ==
    /\ Len(text) >= Len(prefix)
    /\ SubSeq(text, 1, Len(prefix)) = prefix

\* ---- base64, the STANDARD engine: alphabet A-Z a-z 0-9 + /, padded with =
B64Char(i) ==
    IF i < 26 THEN 65 + i
    ELSE IF i < 52 THEN 97 + (i - 26)
    ELSE IF i < 62 THEN 48 + (i - 52)
    ELSE IF i = 62 THEN 43
    ELSE 47

B64Pad == 61

\* Value of a character of the alphabet, -1 for any other byte.
B64Value(c) ==
    IF c >= 65 /\ c <= 90 THEN c - 65
    ELSE IF c >= 97 /\ c <= 122 THEN c - 97 + 26
    ELSE IF c >= 48 /\ c <= 57 THEN c - 48 + 52
    ELSE IF c = 43 THEN 62
    ELSE IF c = 47 THEN 63
    ELSE -1

\* STANDARD.encode(bytes)
RECURSIVE Base64Encode(_)
Base64Encode(bytes) ==
    IF bytes = <<>> THEN <<>>
    ELSE IF Len(bytes) = 1
    THEN <<B64Char(bytes[1] \div 4), B64Char((bytes[1] % 4) * 16),
           B64Pad, B64Pad>>
    ELSE IF Len(bytes) = 2
    THEN <<B64Char(bytes[1] \div 4),
           B64Char((bytes[1] % 4) * 16 + bytes[2] \div 16),
           B64Char((bytes[2] % 16) * 4), B64Pad>>
    ELSE <<B64Char(bytes[1] \div 4),
           B64Char((bytes[1] % 4) * 16 + bytes[2] \div 16),
           B64Char((bytes[2] % 16) * 4 + bytes[3] \div 64),
           B64Char(bytes[3] % 64)>>
         \o Base64Encode(SubSeq(bytes, 4, Len(bytes)))

\* STANDARD.decode(text): [ok, bytes].  The text must consist of whole
\* padded quads of alphabet characters, with padding only in the last quad
\* and no stray bits in front of it.
RECURSIVE Base64Decode(_)
Base64Decode(text) ==
    IF text = <<>> THEN [ok |-> TRUE, bytes |-> <<>>]
    ELSE IF Len(text) < 4 THEN [ok |-> FALSE, bytes |-> <<>>]
    ELSE LET a == B64Value(text[1])
             b == B64Value(text[2])
             c == B64Value(text[3])
             d == B64Value(text[4])
             last == Len(text) = 4
         IN
         IF a < 0 \/ b < 0 THEN [ok |-> FALSE, bytes |-> <<>>]
         ELSE IF text[3] = B64Pad
         THEN IF last /\ text[4] = B64Pad /\ b % 16 = 0
              THEN [ok |-> TRUE, bytes |-> <<a * 4 + b \div 16>>]
              ELSE [ok |-> FALSE, bytes |-> <<>>]
         ELSE IF c < 0 THEN [ok |-> FALSE, bytes |-> <<>>]
         ELSE IF text[4] = B64Pad
         THEN IF last /\ c % 4 = 0
              THEN [ok |-> TRUE,
                    bytes |-> <<a * 4 + b \div 16,
                                (b % 16) * 16 + c \div 4>>]
              ELSE [ok |-> FALSE, bytes |-> <<>>]
         ELSE IF d < 0 THEN [ok |-> FALSE, bytes |-> <<>>]
         ELSE LET rest == Base64Decode(SubSeq(text, 5, Len(text))) IN
              IF rest.ok
              THEN [ok |-> TRUE,
                    bytes |-> <<a * 4 + b \div 16,
                                (b % 16) * 16 + c \div 4,
                                (c % 4) * 64 + d>> \o rest.bytes]
              ELSE [ok |-> FALSE, bytes |-> <<>>]

\* ---- gzip.  A gzip member is a header that starts with the magic bytes
\* 1f 8b and the method byte 08, the deflate stream, and a trailer that
\* ends with the input size.  The deflate stream is modelled by its stored
\* form (the input bytes), the trailer by the size modulo 256.
GzHeader == <<31, 139, 8>>

\* compression::compress_content
CompressContentZlib(content) ==
    <<120, 156>> \o content \o <<Len(content) % 256>>

CompressContent(content) ==
    GzHeader \o content \o <<Len(content) % 256>>

DecompressContentKeepsHeader(data) == [ok |-> TRUE, text |-> data]

\* compression::decompress_content: [ok, text].  Fails on a missing or
\* wrong header, a wrong trailer and on output that is not UTF-8.
DecompressContent(data) ==
    IF /\ Len(data) >= Len(GzHeader) + 1
       /\ SubSeq(data, 1, Len(GzHeader)) = GzHeader
       /\ data[Len(data)] = (Len(data) - Len(GzHeader) - 1) % 256
       /\ ValidUtf8(SubSeq(data, Len(GzHeader) + 1, Len(data) - 1))
    THEN [ok |-> TRUE,
          text |-> SubSeq(data, Len(GzHeader) + 1, Len(data) - 1)]
    ELSE [ok |-> FALSE, text |-> <<>>]

\* compression::should_compress
ShouldCompressAtThreshold(content, threshold) == Len(content) >= threshold

ShouldCompress(content, threshold) == Len(content) > threshold

\* ---- protobuf (prost) encoding of AgentMessage
\* Field numbers of the schema: sender_id, timestamp, content, in that order.
FieldSenderId == 1
FieldTimestamp == 2
FieldContent == 3

VarintOneByte(n) == <<n % 128>>

\* encode_varint, for the non-negative values the model uses
RECURSIVE Varint(_)
Varint(n) ==
    IF n < 128 THEN <<n>> ELSE <<(n % 128) + 128>> \o Varint(n \div 128)

\* decode_varint: [ok, val, rest]; at most ten bytes, the last one without
\* the continuation bit.
RECURSIVE ReadVarintFrom(_, _)
ReadVarintFrom(b, count) ==
    IF b = <<>> \/ count > 10 THEN [ok |-> FALSE, val |-> 0, rest |-> <<>>]
    ELSE IF Head(b) < 128 THEN [ok |-> TRUE, val |-> Head(b), rest |-> Tail(b)]
    ELSE LET r == ReadVarintFrom(Tail(b), count + 1) IN
         IF r.ok
         THEN [ok |-> TRUE, val |-> (Head(b) - 128) + 128 * r.val,
               rest |-> r.rest]
         ELSE r

ReadVarint(b) == ReadVarintFrom(b, 1)

\* A string field: omitted when empty, else key (wire type 2), length, bytes.
EncodeString(field, text) ==
    IF text = <<>> THEN <<>>
    ELSE Varint(field * 8 + 2) \o Varint(Len(text)) \o text

\* An int64 field: omitted when zero, else key (wire type 0), varint.
EncodeInt(field, n) ==
    IF n = 0 THEN <<>> ELSE Varint(field * 8) \o Varint(n)

\* AgentMessage::serialize
Serialize(m) ==
    EncodeString(FieldSenderId, m.sender_id)
    \o EncodeInt(FieldTimestamp, m.timestamp)
    \o EncodeString(FieldContent, m.content)

EmptyMessage == [sender_id |-> <<>>, timestamp |-> 0, content |-> <<>>]

DecodeError == [ok |-> FALSE, msg |-> EmptyMessage]

\* Message::merge over the buffer: [ok, msg].  A known field must have its
\* wire type and a string field must be UTF-8; an unknown field is skipped
\* by its wire type (a group, wire types 3 and 4, is taken as an error).
RECURSIVE MergeFields(_, _)
MergeFields(b, acc) ==
    IF b = <<>> THEN [ok |-> TRUE, msg |-> acc]
    ELSE LET key == ReadVarint(b)
             wire == key.val % 8
             field == key.val \div 8
         IN
         IF ~key.ok \/ field = 0 \/ wire > 5 THEN DecodeError
         ELSE IF wire = 0
         THEN LET v == ReadVarint(key.rest) IN
              IF ~v.ok \/ field \in {FieldSenderId, FieldContent}
              THEN DecodeError
              ELSE MergeFields(v.rest,
                       IF field = FieldTimestamp
                       THEN [acc EXCEPT !.timestamp = v.val] ELSE acc)
         ELSE IF wire = 2
         THEN LET n == ReadVarint(key.rest) IN
              IF ~n.ok \/ field = FieldTimestamp THEN DecodeError
              ELSE IF Len(n.rest) < n.val THEN DecodeError
              ELSE LET data == SubSeq(n.rest, 1, n.val)
                       rest == SubSeq(n.rest, n.val + 1, Len(n.rest))
                   IN
                   IF field = FieldSenderId
                   THEN IF ValidUtf8(data)
                        THEN MergeFields(rest, [acc EXCEPT !.sender_id = data])
                        ELSE DecodeError
                   ELSE IF field = FieldContent
                   THEN IF ValidUtf8(data)
                        THEN MergeFields(rest, [acc EXCEPT !.content = data])
                        ELSE DecodeError
                   ELSE MergeFields(rest, acc)
         ELSE IF wire \in {1, 5}
         THEN LET n == IF wire = 1 THEN 8 ELSE 4 IN
              IF field \in {FieldSenderId, FieldTimestamp, FieldContent}
                 \/ Len(key.rest) < n
              THEN DecodeError
              ELSE MergeFields(SubSeq(key.rest, n + 1, Len(key.rest)), acc)
         ELSE DecodeError

\* AgentMessage::deserialize
Deserialize(bytes) == MergeFields(bytes, EmptyMessage)

\* ---- the envelope (CompressedAgentMessage)
\* AgentMessage::to_compressed
ToCompressed(m, threshold) ==
    IF ShouldCompress(m.content, threshold)
    THEN [sender_id |-> m.sender_id, timestamp |-> m.timestamp,
          compressed_data |-> CompressContent(m.content),
          is_compressed |-> TRUE, original_size |-> Len(m.content)]
    ELSE [sender_id |-> m.sender_id, timestamp |-> m.timestamp,
          compressed_data |-> m.content,
          is_compressed |-> FALSE, original_size |-> Len(m.content)]

\* CompressedAgentMessage::serialize
EnvSerialize(env) ==
    Serialize([sender_id |-> env.sender_id, timestamp |-> env.timestamp,
               content |-> IF env.is_compressed
                           THEN Base64Encode(env.compressed_data)
                           ELSE Utf8Lossy(env.compressed_data)])

EmptyEnvelope ==
    [sender_id |-> <<>>, timestamp |-> 0, compressed_data |-> <<>>,
     is_compressed |-> FALSE, original_size |-> 0]

\* CompressedAgentMessage::deserialize: [ok, env]
EnvDeserialize(bytes, is_compressed, original_size) ==
    LET m == Deserialize(bytes)
        data == IF is_compressed THEN Base64Decode(m.msg.content)
                ELSE [ok |-> TRUE, bytes |-> m.msg.content]
    IN
    IF m.ok /\ data.ok
    THEN [ok |-> TRUE,
          env |-> [sender_id |-> m.msg.sender_id,
                   timestamp |-> m.msg.timestamp,
                   compressed_data |-> data.bytes,
                   is_compressed |-> is_compressed,
                   original_size |-> original_size]]
    ELSE [ok |-> FALSE, env |-> EmptyEnvelope]

\* CompressedAgentMessage::to_agent_message: [ok, msg]
ToAgentMessage(env) ==
    LET content == IF env.is_compressed
                   THEN DecompressContent(env.compressed_data)
                   ELSE [ok |-> ValidUtf8(env.compressed_data),
                         text |-> env.compressed_data]
    IN
    IF content.ok
    THEN [ok |-> TRUE,
          msg |-> [sender_id |-> env.sender_id, timestamp |-> env.timestamp,
                   content |-> content.text]]
    ELSE DecodeError

\* The receiver has no flag on the wire; it takes the content for
\* compressed when it starts with "H4" or with "eJ".
PrefixGzip == <<72, 52>>
PrefixZlib == <<101, 74>>

LooksCompressed(content) ==
    StartsWith(content, PrefixGzip) \/ StartsWith(content, PrefixZlib)

\* NetworkManager::receive_message on a datagram that came in: [ok, msg].
DecodeDatagram(bytes) ==
    LET temp == Deserialize(bytes) IN
    IF ~temp.ok THEN DecodeError
    ELSE LET is_compressed == LooksCompressed(temp.msg.content)
             e == EnvDeserialize(bytes, is_compressed, Len(temp.msg.content))
         IN
         IF ~e.ok THEN DecodeError ELSE ToAgentMessage(e.env)

\* The result of receive_message for a datagram that was read.
ReceiveResultKindIo(r) == IF r.ok THEN "Ok" ELSE "ReceiveError"

ReceiveResultKind(r) == IF r.ok THEN "Ok" ELSE "DeserializationError"

\* ---- one message through the codec
MaxContentChars == 3
MaxThreshold == 2
CompressionThreshold == 1024

\* Characters of the contents: H 4 e J a, the two-byte e-acute and a
\* four-byte emoji.
Chars == {<<72>>, <<52>>, <<101>>, <<74>>, <<97>>, <<195, 169>>,
          <<240, 159, 152, 128>>}

RECURSIVE Texts(_)
Texts(n) ==
    IF n = 0 THEN {<<>>}
    ELSE LET shorter == Texts(n - 1) IN
         shorter \cup {c \o t : c \in Chars, t \in shorter}

Thresholds == (0..MaxThreshold) \cup {CompressionThreshold}

CodecSenders == {<<>>, <<65>>}

Timestamps == {0, 300}

\* Foreign traffic: FF FF FF FF, and a record cut off inside its content.
Malformed == <<255, 255, 255, 255>>

Truncated == <<26, 2, 72>>

\* Datagrams read in a row by the receiver that is given foreign traffic.
MaxReads == 4

\* A well-formed record from a peer with the given content field.
PeerRecord(content) ==
    Serialize([sender_id |-> <<66>>, timestamp |-> 300, content |-> content])

\* What a group can deliver to recv_from: records that do not decode,
\* content "H4" (not base64), "eJxh" (base64, but not of a gzip stream),
\* the base64 of a gzip stream of the byte FF (not UTF-8), the base64 of
\* a gzip stream of "a", and the plain content "a".
GroupDatagrams ==
    {Malformed, Truncated,
     PeerRecord(<<72, 52>>),
     PeerRecord(<<101, 74, 120, 104>>),
     PeerRecord(Base64Encode(CompressContent(<<255>>))),
     PeerRecord(Base64Encode(CompressContent(<<97>>))),
     PeerRecord(<<97>>)}

\* A codec run takes one message through send_message and back through
\* receive_message, or gives receive_message foreign datagrams.
InitCodec ==
    /\ InitProgram
    /\ OpenIdle
    /\ NetIdle
    /\ RetryIdle
    /\ \/ /\ c_pc = "message"
          /\ \E s \in CodecSenders, ts \in Timestamps,
                text \in Texts(MaxContentChars), th \in Thresholds :
                c_in = [msg |-> [sender_id |-> s, timestamp |-> ts,
                                 content |-> text],
                        threshold |-> th]
          /\ c_wire = <<>>
       \/ /\ c_pc = "datagram"
          /\ c_in = <<>>
          /\ c_wire \in GroupDatagrams
    /\ c_env = <<>>
    /\ c_out = <<>>

\* send_message: message.to_compressed(threshold)
CodecToCompressed ==
    /\ c_pc = "message"
    /\ c_env' = ToCompressed(c_in.msg, c_in.threshold)
    /\ c_pc' = "envelope"
    /\ UNCHANGED <<c_in, c_wire, c_out>>
    /\ UNCHANGED <<chanVars, lockVars, callVars, prodVars, msg_count, histVars,
                   intakeVars, procVars, mainVars, retryVars, openVars, netVars>>

\* send_message: compressed_message.serialize() and send_to
CodecSerialize ==
    /\ c_pc = "envelope"
    /\ c_wire' = EnvSerialize(c_env)
    /\ c_pc' = "wire"
    /\ UNCHANGED <<c_in, c_env, c_out>>
    /\ UNCHANGED <<chanVars, lockVars, callVars, prodVars, msg_count, histVars,
                   intakeVars, procVars, mainVars, retryVars, openVars, netVars>>

\* receive_message on the datagram
CodecReceive ==
    /\ c_pc = "wire"
    /\ c_out' = DecodeDatagram(c_wire)
    /\ c_pc' = "received"
    /\ UNCHANGED <<c_in, c_env, c_wire>>
    /\ UNCHANGED <<chanVars, lockVars, callVars, prodVars, msg_count, histVars,
                   intakeVars, procVars, mainVars, retryVars, openVars, netVars>>

\* compressed_message.to_agent_message() on the envelope just built
CodecToAgentMessage ==
    /\ c_pc = "envelope"
    /\ c_out' = ToAgentMessage(c_env)
    /\ c_pc' = "unwrapped"
    /\ UNCHANGED <<c_in, c_env, c_wire>>
    /\ UNCHANGED <<chanVars, lockVars, callVars, prodVars, msg_count, histVars,
                   intakeVars, procVars, mainVars, retryVars, openVars, netVars>>

\* message.serialize() on the message itself
CodecEncode ==
    /\ c_pc = "message"
    /\ c_wire' = Serialize(c_in.msg)
    /\ c_pc' = "encoded"
    /\ UNCHANGED <<c_in, c_env, c_out>>
    /\ UNCHANGED <<chanVars, lockVars, callVars, prodVars, msg_count, histVars,
                   intakeVars, procVars, mainVars, retryVars, openVars, netVars>>

\* AgentMessage::deserialize(&bytes) on the record just encoded
CodecDecode ==
    /\ c_pc = "encoded"
    /\ c_out' = Deserialize(c_wire)
    /\ c_pc' = "decoded"
    /\ UNCHANGED <<c_in, c_env, c_wire>>
    /\ UNCHANGED <<chanVars, lockVars, callVars, prodVars, msg_count, histVars,
                   intakeVars, procVars, mainVars, retryVars, openVars, netVars>>

\* receive_message on a datagram of the group, which then delivers the
\* next one; c_out collects what the calls returned.
CodecReceiveDatagram(next) ==
    /\ c_pc = "datagram"
    /\ Len(c_out) < MaxReads
    /\ LET r == DecodeDatagram(c_wire) IN
       c_out' = Append(c_out, [bytes |-> c_wire,
                               result |-> ReceiveResultKind(r),
                               msg |-> r.msg])
    /\ c_wire' = next
    /\ UNCHANGED <<c_pc, c_in, c_env>>
    /\ UNCHANGED <<chanVars, lockVars, callVars, prodVars, msg_count, histVars,
                   intakeVars, procVars, mainVars, retryVars, openVars,
                   netVars>>

NextCodec ==
    \/ \E next \in GroupDatagrams : CodecReceiveDatagram(next)
    \/ CodecToCompressed
    \/ CodecSerialize
    \/ CodecReceive
    \/ CodecToAgentMessage
    \/ CodecEncode
    \/ CodecDecode

SpecCodec == InitCodec /\ [][NextCodec]_vars

\* ============================================ opening the transport (network.rs)
\* A group address is its family and the first byte of its IP: the first
\* octet of an IPv4 address, the first byte of an IPv6 address.
Addresses ==
    {[family |-> "v4", first |-> f] : f \in {192, 223, 224, 239, 240}}
    \cup {[family |-> "v6", first |-> f] : f \in {254, 255}}

\* IpAddr::is_multicast: 224.0.0.0/4 and ff00::/8
IsMulticastAny(addr) == TRUE

IsMulticast(addr) ==
    IF addr.family = "v4" THEN addr.first >= 224 /\ addr.first <= 239
    ELSE addr.first = 255

Ports == {80, 8080}

\* config.interface: absent, an IPv4 address, or a name that does not parse
Interfaces == {"none", "192.168.1.5", "eth0"}

\* The interface the group is joined on: the parsed address, else 0.0.0.0.
InterfaceIp(interface) ==
    IF interface = "192.168.1.5" THEN interface ELSE "0.0.0.0"

NoResult == [kind |-> "none", msg |-> ""]

InvalidAddressError ==
    [kind |-> "ConfigError", msg |-> "not a valid multicast address"]

Ipv6Error ==
    [kind |-> "ConfigError", msg |-> "IPv6 multicast not currently supported"]

SocketCreationError == [kind |-> "SocketCreation", msg |-> "io"]

MulticastJoinError == [kind |-> "MulticastJoin", msg |-> "io"]

Opened == [kind |-> "Ok", msg |-> ""]

OtherThanOpen ==
    <<chanVars, lockVars, callVars, prodVars, msg_count, histVars,
      intakeVars, procVars, mainVars, retryVars, codecVars, netVars>>

InitOpen ==
    /\ InitProgram
    /\ CodecIdle
    /\ NetIdle
    /\ RetryIdle
    /\ o_pc = "validate"
    /\ \E a \in Addresses, p \in Ports, i \in Interfaces :
          o_cfg = [addr |-> a, port |-> p, interface |-> i]
    /\ o_ops = <<>>
    /\ o_result = NoResult

\* A socket call that ends the construction with SocketCreation when it
\* fails and goes on to the next call when it succeeds.
SocketCall(at, op, ok, then) ==
    /\ o_pc = at
    /\ o_ops' = Append(o_ops, [op |-> op, ok |-> ok])
    /\ o_pc' = IF ok THEN then ELSE "done"
    /\ o_result' = IF ok THEN o_result ELSE SocketCreationError
    /\ UNCHANGED o_cfg
    /\ UNCHANGED OtherThanOpen

\* NetworkManager::new: the address check in front of everything else
OpenValidate ==
    /\ o_pc = "validate"
    /\ IF IsMulticast(o_cfg.addr)
       THEN o_pc' = "socket" /\ UNCHANGED o_result
       ELSE o_pc' = "done" /\ o_result' = InvalidAddressError
    /\ UNCHANGED <<o_cfg, o_ops>>
    /\ UNCHANGED OtherThanOpen

\* Socket::new(Domain::IPV4, Type::DGRAM, Some(Protocol::UDP))
OpenSocketNew(ok) == SocketCall("socket", "socket", ok, "reuse_address")

\* socket.set_reuse_address(true)
OpenSetReuseAddress(ok) ==
    SocketCall("reuse_address", "set_reuse_address", ok, "reuse_port")

\* socket.set_reuse_port(true): a failure is logged and nothing else
OpenSetReusePort(ok) ==
    /\ o_pc = "reuse_port"
    /\ o_ops' = Append(o_ops, [op |-> "set_reuse_port", ok |-> ok])
    /\ o_pc' = "bind"
    /\ UNCHANGED <<o_cfg, o_result>>
    /\ UNCHANGED OtherThanOpen

\* socket.bind(0.0.0.0:port)
OpenBind(ok) == SocketCall("bind", "bind", ok, "join")

\* socket.join_multicast_v4(group, interface) for an IPv4 group
OpenJoin(ok) ==
    /\ o_pc = "join"
    /\ o_cfg.addr.family = "v4"
    /\ o_ops' = Append(o_ops, [op |-> "join_multicast_v4", ok |-> ok,
                                interface |-> InterfaceIp(o_cfg.interface)])
    /\ o_pc' = IF ok THEN "nonblocking" ELSE "done"
    /\ o_result' = IF ok THEN o_result ELSE MulticastJoinError
    /\ UNCHANGED o_cfg
    /\ UNCHANGED OtherThanOpen

\* the else branch of the join: the group is not an IPv4 address
OpenRejectV6 ==
    /\ o_pc = "join"
    /\ o_cfg.addr.family # "v4"
    /\ o_pc' = "done"
    /\ o_result' = Ipv6Error
    /\ UNCHANGED <<o_cfg, o_ops>>
    /\ UNCHANGED OtherThanOpen

\* socket.set_nonblocking(true)
OpenSetNonblocking(ok) ==
    SocketCall("nonblocking", "set_nonblocking", ok, "from_std")

\* UdpSocket::from_std(socket)?, then Ok(manager)
OpenFromStd(ok) ==
    /\ o_pc = "from_std"
    /\ o_ops' = Append(o_ops, [op |-> "from_std", ok |-> ok])
    /\ o_pc' = "done"
    /\ o_result' = IF ok THEN Opened ELSE SocketCreationError
    /\ UNCHANGED o_cfg
    /\ UNCHANGED OtherThanOpen

NextOpen ==
    \/ OpenValidate
    \/ \E ok \in BOOLEAN : OpenSocketNew(ok)
    \/ \E ok \in BOOLEAN : OpenSetReuseAddress(ok)
    \/ \E ok \in BOOLEAN : OpenSetReusePort(ok)
    \/ \E ok \in BOOLEAN : OpenBind(ok)
    \/ \E ok \in BOOLEAN : OpenJoin(ok)
    \/ OpenRejectV6
    \/ \E ok \in BOOLEAN : OpenSetNonblocking(ok)
    \/ \E ok \in BOOLEAN : OpenFromStd(ok)

SpecOpen == InitOpen /\ [][NextOpen]_vars

\* ================================= calls on an open transport (network.rs)
\* NetworkManager keeps no state between calls besides the socket.  The
\* socket is the queue of datagrams the group has delivered to it.

\* config.compression_threshold of the transport under test
NetThreshold == 3

\* Datagrams the group may deliver before the run ends, and calls made.
MaxInbox == 2
MaxCalls == 3

RECURSIVE Repeat(_, _)
Repeat(b, n) == IF n = 0 THEN <<>> ELSE <<b>> \o Repeat(b, n - 1)

\* Messages of a peer "B": a short one, a short one that starts with "H4",
\* and one that is one byte over the threshold.
NetMessages ==
    {[sender_id |-> <<66>>, timestamp |-> 300, content |-> c] :
        c \in {<<97>>, <<72, 52>>, Repeat(97, NetThreshold + 1)}}

\* send_message up to the socket: to_compressed, then serialize
WireOf(m) == EnvSerialize(ToCompressed(m, NetThreshold))

NetDatagrams == {WireOf(m) : m \in NetMessages} \cup {Malformed, Truncated}

\* The group delivers a datagram to the socket.
NetDeliver(d) ==
    /\ Len(n_inbox) < MaxInbox
    /\ Len(n_calls) < MaxCalls
    /\ n_inbox' = Append(n_inbox, d)
    /\ UNCHANGED <<n_rx, n_tx, n_calls>>
    /\ UNCHANGED <<chanVars, lockVars, callVars, prodVars, msg_count, histVars,
                   intakeVars, procVars, mainVars, retryVars, codecVars, openVars>>

\* Number of socket.send_to calls one send_message makes.
SendAttemptsRetry(ok) == IF ok THEN 1 ELSE 2

SendAttempts(ok) == 1

\* match self.socket.send_to(..).await { Ok(_) => Ok(()), Err(e) =>
\* Err(NetworkError::SendError(..)) }
SendResultKind(ok) == IF ok THEN "Ok" ELSE "SendError"

\* NetworkManager::send_message(m); ok is the outcome of send_to.
NetSend(m, ok) ==
    /\ Len(n_calls) < MaxCalls
    /\ n_tx' = n_tx \o [i \in 1..SendAttempts(ok) |->
                           [bytes |-> WireOf(m), ok |-> ok]]
    /\ n_calls' = Append(n_calls, [op |-> "send", result |-> SendResultKind(ok),
                                   msg |-> m])
    /\ UNCHANGED <<n_inbox, n_rx>>
    /\ UNCHANGED <<chanVars, lockVars, callVars, prodVars, msg_count, histVars,
                   intakeVars, procVars, mainVars, retryVars, codecVars, openVars>>

\* Number of datagrams one receive_message takes from the socket: the one
\* recv_from returns, whether it decodes or not.
RECURSIVE ReceiveConsumedSkipping(_)
ReceiveConsumedSkipping(inbox) ==
    IF Len(inbox) <= 1 \/ DecodeDatagram(Head(inbox)).ok THEN 1
    ELSE 1 + ReceiveConsumedSkipping(Tail(inbox))

ReceiveConsumed(inbox) == 1

\* NetworkManager::receive_message; ok is the outcome of recv_from, which
\* suspends while nothing has been delivered.
NetReceive(ok) ==
    /\ Len(n_calls) < MaxCalls
    /\ IF ok
       THEN /\ n_inbox # <<>>
            /\ LET k == ReceiveConsumed(n_inbox)
                   r == DecodeDatagram(n_inbox[k])
               IN
               /\ n_inbox' = SubSeq(n_inbox, k + 1, Len(n_inbox))
               /\ n_rx' = n_rx \o [i \in 1..k |->
                                      [bytes |-> n_inbox[i], ok |-> TRUE]]
               /\ n_calls' = Append(n_calls,
                                    [op |-> "receive",
                                     result |-> ReceiveResultKind(r),
                                     msg |-> r.msg])
       ELSE /\ n_inbox' = n_inbox
            /\ n_rx' = Append(n_rx, [bytes |-> <<>>, ok |-> FALSE])
            /\ n_calls' = Append(n_calls, [op |-> "receive",
                                           result |-> "ReceiveError",
                                           msg |-> EmptyMessage])
    /\ UNCHANGED n_tx
    /\ UNCHANGED <<chanVars, lockVars, callVars, prodVars, msg_count, histVars,
                   intakeVars, procVars, mainVars, retryVars, codecVars, openVars>>

NextNet ==
    \/ \E d \in NetDatagrams : NetDeliver(d)
    \/ \E m \in NetMessages, ok \in BOOLEAN : NetSend(m, ok)
    \/ \E ok \in BOOLEAN : NetReceive(ok)

SpecNet == Init /\ [][NextNet]_vars

\* ================================================================ claims
FullError == "ChannelSendError: Channel buffer full"

PeerMessages(s) == SelectSeq(s, LAMBDA m : m.sender_id # AgentId)

SenderIds(s) == [i \in DOMAIN s |-> s[i].sender_id]

Greetings(log) == {i \in DOMAIN log : log[i].kind = "greeting"}

\* C1 (SpecQueue): no receive_message / try_receive_message call ever
\* returns a message whose sender_id is the handler's own agent_id.
SelfFilteringHolds ==
    /\ \A i \in DOMAIN popped : popped[i].sender_id # AgentId
    /\ \A c \in Callers : cret[c].msg.sender_id # AgentId

\* Senders A, B, A, C were pushed in this order and the pops returned
\* exactly B, C.
SelfFilteringWitness ==
    /\ SenderIds(pushed) = <<"A", "B", "A", "C">>
    /\ SenderIds(popped) = <<"B", "C">>
    /\ queue = <<>>

\* C2 (SpecQueue): the messages returned to consumers, followed by the peer
\* messages still buffered, are exactly the peer messages accepted by the
\* channel, in the order they were accepted.
FifoOrder ==
    PeerMessages(pushed) = popped \o PeerMessages(queue)

FifoWitness ==
    /\ Len(popped) >= 2
    /\ Len(PeerMessages(queue)) >= 1
    /\ \E i \in DOMAIN pushed : pushed[i].sender_id = AgentId

\* C3 (SpecQueue): a try_send_message call succeeds and appends its message
\* while fewer than Capacity messages are buffered; at Capacity it returns
\* the "Channel buffer full" send error and leaves the buffer as it was.
BackpressureOnFull ==
    [][(msg_count' = msg_count + 1 /\ ppc' = "idle"
          /\ pret'.op = "try_send_message")
        => /\ Len(queue) < Capacity
              => pret'.result = "Ok" /\ queue' = Append(queue, pret'.msg)
           /\ Len(queue) >= Capacity
              => pret'.result = FullError /\ queue' = queue]_vars

\* Capacity pushes were accepted with nothing consumed, and one more
\* try_send_message was refused.
BackpressureWitness ==
    /\ pret.op = "try_send_message"
    /\ pret.result = FullError
    /\ Len(pushed) = Capacity
    /\ queue = pushed
    /\ msg_count = Capacity + 1

\* C4 (SpecQueue): the number of buffered messages never exceeds the
\* capacity the handler was created with.
CapacityInvariant ==
    Len(queue) \in 0..Capacity

\* A send_message is suspended on a full buffer after messages have already
\* been consumed.
CapacityWitness ==
    /\ Len(queue) = Capacity
    /\ ppc = "send_wait"
    /\ popped # <<>>

\* C5 (SpecQueue): a try_receive_message call is never suspended: no caller
\* is ever parked in lock().await on behalf of try_receive_message.
TryPopNeverWaits ==
    \A c \in Callers : cpc[c] # "try_lock"

\* C6 (Spec): a DeserializationError from receive_message leaves the intake
\* task running at the top of its loop and pushes nothing.
IntakeSurvivesDecodeError ==
    /\ [](intake_last = "DeserializationError"
            => intake_pc = "receive" /\ intake_result = "running")
    /\ [][(msg_count' # msg_count /\ intake_last' = "DeserializationError")
            => queue' = queue /\ pushed' = pushed]_vars

\* Three datagrams in a row failed to decode and the task still receives.
IntakeDecodeErrorWitness ==
    /\ intake_last = "DeserializationError"
    /\ msg_count = 3
    /\ intake_try = "none"
    /\ intake_pc = "receive"

\* C7 (Spec): the intake task pushes only through try_send_message, which is
\* always able to complete; on a full buffer the message is dropped and the
\* task is back at receive, still running.
IntakeDropsOnFull ==
    /\ [](intake_pc = "forward" => ENABLED IntakeForward)
    /\ [][/\ pushed' # pushed => intake_pc = "forward"
          /\ (intake_pc = "forward" /\ intake_pc' # "forward"
                /\ Len(queue) >= Capacity)
             => /\ queue' = queue
                /\ pushed' = pushed
                /\ intake_try' = FullError
                /\ intake_pc' = "receive"
                /\ intake_result' = "running"]_vars

IntakeDropsOnFullWitness ==
    /\ intake_try = FullError
    /\ intake_pc = "receive"
    /\ intake_result = "running"
    /\ Len(queue) = Capacity

\* C8 (Spec): a ReceiveError ends the intake task with an Err result, and a
\* finished intake task neither receives nor pushes again.
IntakeStopsOnReceiveError ==
    [][/\ intake_last' = "ReceiveError"
          => intake_pc' = "done" /\ intake_result' = "Err"
       /\ intake_pc = "done"
          => /\ intake_pc' = "done"
             /\ intake_result' = "Err"
             /\ msg_count' = msg_count
             /\ pushed' = pushed
             /\ intake_try' = intake_try]_vars

\* The task has stopped on a ReceiveError while datagrams could still come
\* and a message it forwarded earlier is still buffered.
IntakeStopsWitness ==
    /\ intake_pc = "done"
    /\ intake_last = "ReceiveError"
    /\ intake_result = "Err"
    /\ msg_count < MaxMessages
    /\ queue # <<>>

BootstrapGreeting ==
    /\ proc_pc = "start"
         => sent = <<>> /\ cpc["llm"] = "idle" /\ popped = <<>>
    /\ proc_pc # "start"
         => /\ Len(sent) >= 1
            /\ sent[1].kind = "greeting"
            /\ sent[1].sender_id = AgentId
            /\ Cardinality(Greetings(sent)) = 1

\* The greeting went out and the first pop is pending although no datagram
\* has been received at all.
BootstrapGreetingWitness ==
    /\ proc_pc = "pop"
    /\ msg_count = 0
    /\ Len(sent) = 1
    /\ sent[1].kind = "greeting"
    /\ sent[1].outcome = "Ok"

\* ------------------------------------------------------ claims C11 .. C16
Replies(log) == SelectSeq(log, LAMBDA e : e.kind = "reply")

OuterDelays(log) == SelectSeq(log, LAMBDA e : e.kind = "outer")

RECURSIVE SumMs(_)
SumMs(log) == IF log = <<>> THEN 0 ELSE Head(log).ms + SumMs(Tail(log))

MinOf(a, b) == IF a <= b THEN a ELSE b

\* C11 (Spec): when the last allowed attempt fails the task goes on with the
\* error text as reply; every popped message gets exactly one reply, with
\* the node's own sender_id, handed to send_message before the next pop.
DegradedReply ==
    /\ [](/\ Len(Replies(sent)) =
               Len(popped) - (IF proc_pc \in {"generate", "say", "send"}
                              THEN 1 ELSE 0)
          /\ \A i \in DOMAIN Replies(sent) :
                /\ Replies(sent)[i].sender_id = AgentId
                /\ Replies(sent)[i].reply_to = popped[i].content)
    /\ [][/\ (/\ proc_pc = "generate"
              /\ inner_attempt = MaxRetries
              /\ outer_attempt = RetryTake
              /\ proc_pc' # "generate"
              /\ proc_reply' # "response")
             => /\ proc_reply' = "error"
                /\ proc_pc' = "say"
                /\ proc_result' = "running"
          /\ (proc_pc = "send" /\ sent' # sent)
             => sent'[Len(sent')].content = proc_reply]_vars

\* A reply carrying the error text went out and the loop answered a later
\* message after it.
DegradedReplyWitness ==
    /\ Len(sent) >= 3
    /\ sent[2].kind = "reply"
    /\ sent[2].content = "error"
    /\ sent[2].outcome = "Ok"
    /\ sent[3].kind = "reply"

\* C12 (Spec): a failing send_message, for the greeting or for a reply, ends
\* the task with an Err result; the finished task keeps that result and
\* neither pops, generates nor sends again.
SendFailureFatal ==
    [][/\ (sent' # sent /\ sent'[Len(sent')].outcome = "SendError")
          => proc_pc' = "done" /\ proc_result' = "Err"
       /\ proc_pc = "done"
          => /\ proc_pc' = "done"
             /\ proc_result' = "Err"
             /\ sent' = sent
             /\ popped' = popped
             /\ queue' = queue \/ Len(queue') > Len(queue)
             /\ cpc'["llm"] = cpc["llm"]
             /\ sleeps' = sleeps
             /\ proc_reply' = proc_reply]_vars

\* The send of a reply failed; the task is finished with Err while messages
\* are still buffered and main is still joining.
SendFailureWitness ==
    /\ proc_pc = "done"
    /\ proc_result = "Err"
    /\ Len(sent) >= 2
    /\ sent[Len(sent)].kind = "reply"
    /\ sent[Len(sent)].outcome = "SendError"
    /\ queue # <<>>
    /\ main_pc = "joining"

\* C13 (Spec): the delays of the retry wrapper start at 100 ms, each later
\* one is twice the one before cut at 10 s, none exceeds 10 s and there are
\* at most RetryTake of them.
BackoffDoubles ==
    LET d == OuterDelays(sleeps) IN
    /\ Len(d) >= 1 => d[1].ms = BackoffBaseMs
    /\ \A i \in 1..(Len(d) - 1) :
          d[i + 1].ms = MinOf(2 * d[i].ms, MaxDelayMs)
    /\ \A i \in DOMAIN d : d[i].ms <= MaxDelayMs
    /\ Len(d) <= RetryTake

\* C14 (Spec): the sleeps spent on one message, in the retry wrapper and
\* inside generate_llm_response, add up to at most 10 s x 5.
BackoffEnvelope ==
    SumMs(sleeps) <= MaxDelayMs * RetryTake

\* C15 (Spec): a task that ended with an error leaves the other one able to
\* take its next step: the LLM task still pops and sends, the intake task
\* still receives and forwards.
CrossLoopIsolation ==
    /\ (intake_result = "Err" /\ proc_pc = "loop") => ENABLED ProcCallPop
    /\ (intake_result = "Err" /\ proc_pc = "pop" /\ queue # <<>>)
          => ENABLED ProcRecv
    /\ (intake_result = "Err" /\ proc_pc = "send")
          => \A o \in SendOutcomes : ENABLED ProcSend(o)
    /\ (proc_result = "Err" /\ intake_pc = "receive"
          /\ msg_count < MaxMessages)
          => \A d \in Datagrams : ENABLED IntakeReceive(d)
    /\ (proc_result = "Err" /\ intake_pc = "forward") => ENABLED IntakeForward

\* The intake task has failed, yet the LLM task, having already replied
\* once, is in pop with a message waiting for it.
CrossLoopWitness ==
    /\ intake_result = "Err"
    /\ proc_pc = "pop"
    /\ queue # <<>>
    /\ Len(sent) >= 2
    /\ main_pc = "joining"

\* C16 (Spec): once both tasks have ended abnormally the process ends with a
\* non-zero status, and main does not return while only one task has
\* returned an error.
ExitStatusOnFailure ==
    /\ (main_pc = "exited" /\ intake_result # "running"
          /\ proc_result # "running") => exit_code # 0
    /\ main_pc = "exited"
          => ~(intake_result = "Err" /\ proc_result = "running")
             /\ ~(proc_result = "Err" /\ intake_result = "running")


\* ------------------------------------------------------- claims C17 .. C18

\* C17: every message, compressed or not and whatever its length against
\* the threshold, comes out of the receiver equal to what went into the
\* sender.
TransportRoundTrip ==
    c_pc = "received" => c_out.ok /\ c_out.msg = c_in.msg

\* C18: a message is compressed exactly when its content is longer than the
\* threshold; the envelope records that and the length of the content, and
\* a content that is not compressed is carried as its own bytes.
CompressionDecision ==
    c_pc \in {"envelope", "wire", "received"} =>
        /\ c_env.is_compressed = (Len(c_in.msg.content) > c_in.threshold)
        /\ c_env.original_size = Len(c_in.msg.content)
        /\ Len(c_in.msg.content) <= c_in.threshold =>
               c_env.compressed_data = c_in.msg.content
        /\ Len(c_in.msg.content) > c_in.threshold =>
               DecompressContent(c_env.compressed_data) =
                   [ok |-> TRUE, text |-> c_in.msg.content]

CompressionDecisionWitness ==
    /\ c_pc = "envelope"
    /\ c_in.threshold = MaxThreshold
    /\ Len(c_in.msg.content) = c_in.threshold + 1
    /\ c_env.is_compressed

\* ------------------------------------------------------- claims C19 .. C20

\* C19: opening with a group address that is not multicast fails with the
\* invalid-address configuration error; no socket call is ever made for
\* such an address and no transport comes out of it.
NotAGroup(addr) ==
    \/ addr.family = "v4" /\ (addr.first < 224 \/ addr.first > 239)
    \/ addr.family = "v6" /\ addr.first # 255

InvalidAddressFirst ==
    NotAGroup(o_cfg.addr) =>
        /\ o_ops = <<>>
        /\ o_result.kind # "Ok"
        /\ o_pc = "done" => o_result = InvalidAddressError

InvalidAddressWitness ==
    /\ o_pc = "done"
    /\ o_cfg.addr = [family |-> "v4", first |-> 192]
    /\ o_result = InvalidAddressError
    /\ o_ops = <<>>

\* C20: opening with an IPv6 multicast group address ends with the
\* IPv6-unsupported error, which is not the invalid-address error, and
\* never with a transport.
Ipv6Unsupported ==
    (o_pc = "done" /\ o_cfg.addr.family = "v6" /\ ~NotAGroup(o_cfg.addr)) =>
        /\ o_result = Ipv6Error
        /\ o_result # InvalidAddressError

\* ------------------------------------------------------- claims C21 .. C30
LastCall == n_calls[Len(n_calls)]

CallReturned(op) ==
    /\ Len(n_calls') = Len(n_calls) + 1
    /\ n_calls'[Len(n_calls')].op = op

\* A message whose datagram the receiver classifies the way it was sent.
Classified(m) ==
    \/ Len(m.content) > NetThreshold
    \/ ~(StartsWith(m.content, <<72, 52>>) \/ StartsWith(m.content, <<101, 74>>))

NoSendRetry ==
    /\ []((n_calls # <<>> /\ LastCall.result = "SendError"
             /\ Len(n_calls) < MaxCalls)
            => \A m \in NetMessages : ENABLED NetSend(m, TRUE))
    /\ [][CallReturned("send") =>
            /\ Len(n_tx') = Len(n_tx) + 1
            /\ n_tx'[Len(n_tx')].bytes = WireOf(n_calls'[Len(n_calls')].msg)
            /\ n_calls'[Len(n_calls')].result =
                  (IF n_tx'[Len(n_tx')].ok THEN "Ok" ELSE "SendError")
            /\ UNCHANGED <<n_inbox, n_rx>>]_vars

\* A send failed after one transmission, the next send went out, and a
\* receive after them returned a message.
NoSendRetryWitness ==
    /\ Len(n_calls) = 3
    /\ n_calls[1].op = "send"
    /\ n_calls[1].result = "SendError"
    /\ n_calls[2].op = "send"
    /\ n_calls[2].result = "Ok"
    /\ Len(n_tx) = 2
    /\ n_calls[3].op = "receive"
    /\ n_calls[3].result = "Ok"

\* C27 (SpecNet): a receive_message call makes one recv_from, takes the one
\* datagram it returned from the socket and returns one result for it,
\* decodable or not.
OneDatagramPerReceive ==
    [][CallReturned("receive") =>
          /\ Len(n_rx') = Len(n_rx) + 1
          /\ Len(n_calls') = Len(n_calls) + 1
          /\ n_rx'[Len(n_rx')].ok =>
                /\ n_rx'[Len(n_rx')].bytes = Head(n_inbox)
                /\ n_inbox' = Tail(n_inbox)
                /\ n_calls'[Len(n_calls')].result
                      \in {"Ok", "DeserializationError"}
          /\ ~n_rx'[Len(n_rx')].ok =>
                /\ n_inbox' = n_inbox
                /\ n_calls'[Len(n_calls')].result = "ReceiveError"]_vars

\* The first of two delivered datagrams did not decode: one call, one read,
\* one error, and the decodable second datagram is still on the socket.
OneDatagramWitness ==
    /\ Len(n_calls) = 1
    /\ n_calls[1].op = "receive"
    /\ n_calls[1].result = "DeserializationError"
    /\ Len(n_rx) = 1
    /\ n_rx[1].bytes = Truncated
    /\ n_inbox # <<>>
    /\ \E m \in NetMessages : Head(n_inbox) = WireOf(m) /\ Classified(m)

\* C22 (SpecCodec): to_agent_message of the envelope to_compressed built
\* succeeds and gives back the sender_id, timestamp and content of the
\* message, below, at and above the threshold.
EnvelopeRoundTrip ==
    c_pc = "unwrapped" => c_out = [ok |-> TRUE, msg |-> c_in.msg]

\* A multi-byte content one byte over the threshold went through the
\* compressed branch and came back.
EnvelopeRoundTripWitness ==
    /\ c_pc = "unwrapped"
    /\ c_env.is_compressed
    /\ Len(c_in.msg.content) = c_in.threshold + 1
    /\ c_in.msg.content[1] > 127
    /\ c_out.ok
    /\ c_out.msg.content = c_in.msg.content

\* C23 (SpecCodec): deserialize(serialize(m)) succeeds and equals m, for
\* empty and multi-byte contents too.
RecordRoundTrip ==
    c_pc = "decoded" => c_out = [ok |-> TRUE, msg |-> c_in.msg]

\* A record with empty content and one with an emoji in it: here the
\* empty one, whose fields are all left out of the encoding.
RecordRoundTripWitness ==
    /\ c_pc = "decoded"
    /\ c_in.msg.content = <<>>
    /\ c_in.msg.sender_id = <<>>
    /\ c_in.msg.timestamp = 0
    /\ c_wire = <<>>
    /\ c_out.ok

\* C24 (Spec): receive_message reports ChannelClosed only with the producer
\* gone and nothing buffered, and once the intake task has ended and the
\* buffer is empty a suspended receive_message returns (with ChannelClosed)
\* instead of staying suspended.
PopClosedWhenProducerGone ==
    /\ cret["llm"].kind = "ChannelClosed"
          => (intake_pc = "done" /\ queue = <<>>)
    /\ (intake_pc = "done" /\ queue = <<>> /\ proc_pc = "pop"
          /\ cpc["llm"] = "recv_wait" /\ main_pc = "joining")
          => ENABLED ProcRecv

Occurrences(log, m) == Cardinality({i \in DOMAIN log : log[i] = m})

\* C25 (SpecQueue): send_message on a full buffer neither fails nor drops:
\* it stays suspended holding the message while the buffer is full, can
\* complete as soon as a slot is free, and then has put the message at the
\* tail, once; it fails only when the receiving half is closed.
BlockingPush ==
    /\ [](/\ ppc = "send_wait" =>
                /\ pmsg # NoMessage
                /\ Occurrences(pushed, pmsg) = 0
                /\ (Len(queue) < Capacity) = ENABLED ProducerSendComplete
          /\ pret.op = "send_message" =>
                IF pret.result = "Ok"
                THEN Occurrences(pushed, pret.msg) = 1
                ELSE rx_closed)
    /\ [][ppc = "send_wait" =>
            \/ ppc' = "send_wait" /\ pmsg' = pmsg
            \/ /\ ppc' = "idle"
               /\ queue' = Append(queue, pmsg)
               /\ pret' = [op |-> "send_message", result |-> "Ok",
                           msg |-> pmsg]]_vars

\* send_message is suspended on a full buffer, holding its message, after
\* a consumer has already taken one.
BlockingPushWitness ==
    /\ ppc = "send_wait"
    /\ Len(queue) = Capacity
    /\ pmsg.content = msg_count
    /\ popped # <<>>

\* C28 (Spec): whatever say returns, the task goes on to send_message with
\* the reply it generated, unchanged, and is not ended by it.
SpeechBestEffort ==
    /\ [](proc_pc = "send" =>
             (say_last \in {"Ok", "Err"} /\ proc_result = "running"
              /\ \A o \in SendOutcomes : ENABLED ProcSend(o)))
    /\ [][(proc_pc = "say" /\ say_last' # say_last) =>
             /\ proc_pc' = "send"
             /\ proc_reply' = proc_reply
             /\ proc_msg' = proc_msg
             /\ proc_result' = "running"
             /\ sent' = sent]_vars
    /\ [][(say_last = "Err" /\ sent' # sent) =>
             /\ sent'[Len(sent')].kind = "reply"
             /\ sent'[Len(sent')].content = proc_reply
             /\ sent'[Len(sent')].reply_to = proc_msg.content]_vars

\* say has failed for the second reply of the run; the task is alive, at
\* send_message, with the generated reply in hand.
SpeechBestEffortWitness ==
    /\ proc_pc = "send"
    /\ say_last = "Err"
    /\ proc_result = "running"
    /\ proc_reply = "response"
    /\ Len(sent) >= 2
    /\ sent[Len(sent)].kind = "reply"
    /\ sent[Len(sent)].outcome = "Ok"

\* C29 (SpecQueue): with receive_message and try_receive_message called
\* concurrently, no accepted message is returned twice, every returned
\* message was accepted before, and a returned message is no longer
\* buffered.
HandoffOnce ==
    /\ \A i, j \in DOMAIN popped : i # j => popped[i] # popped[j]
    /\ \A i \in DOMAIN popped :
          /\ Occurrences(pushed, popped[i]) = 1
          /\ Occurrences(queue, popped[i]) = 0
    /\ \A c \in Clients :
          cret[c].kind \in {"Ok", "Some"} => Occurrences(popped, cret[c].msg) = 1

\* Both consumers got a message, one from receive_message and one from
\* try_receive_message, while a third message is still buffered.
HandoffWitness ==
    /\ cret["c1"].kind = "Ok"
    /\ cret["c2"].kind = "Some"
    /\ cret["c1"].msg # cret["c2"].msg
    /\ Len(popped) >= 2
    /\ queue # <<>>

\* C30 (SpecQueue): each turn of try_receive_message takes the head of the
\* buffer: a self message is dropped and the loop goes on, another message
\* is returned as Some; on an empty buffer it returns None and leaves the
\* buffer as it is.  So None is only returned with the buffer empty.
TryPopResult ==
    [][\A c \in Clients :
          (cpc[c] = "try_recv"
              /\ (cpc'[c] = "idle" \/ Len(queue') < Len(queue))) =>
             IF queue = <<>>
             THEN /\ cret'[c] = [kind |-> "None", msg |-> NoMessage]
                  /\ cpc'[c] = "idle"
                  /\ queue' = queue
                  /\ popped' = popped
             ELSE IF Head(queue).sender_id = AgentId
             THEN /\ cpc'[c] = "try_recv"
                  /\ queue' = Tail(queue)
                  /\ popped' = popped
                  /\ cret' = cret
             ELSE /\ cret'[c] = [kind |-> "Some", msg |-> Head(queue)]
                  /\ cpc'[c] = "idle"
                  /\ queue' = Tail(queue)
                  /\ popped' = Append(popped, Head(queue))]_vars

\* Two self messages were accepted; try_receive_message by c1 dropped both
\* and returned None, the buffer is empty and nothing was handed out.
TryPopWitness ==
    /\ Len(pushed) = 2
    /\ \A i \in DOMAIN pushed : pushed[i].sender_id = AgentId
    /\ queue = <<>>
    /\ popped = <<>>
    /\ cpc = [c \in Callers |-> "idle"]
    /\ cret["c1"].kind = "None"
    /\ cret["c2"].kind = "none"

\* ------------------------------------------------------ claims C31 .. C40
Chats(log) == SelectSeq(log, LAMBDA e : e.ev = "chat")

\* C32 (SpecRetry): a run of generate_llm_response_with_retries calls the
\* provider at most max_retries + 1 times; a successful call is the last
\* thing it does and its response is returned; the k-th failed call is
\* followed by a sleep of 1000 x k ms when k <= max_retries, and by the
\* return of that call's error, without a sleep, when k = max_retries + 1;
\* generate_llm_response runs it with max_retries = 3.
RetryHelperContract ==
    g_pc \in {"loop", "returned"} =>
        /\ Len(Chats(g_log)) <= g_max_retries + 1
        /\ \A i \in DOMAIN Chats(g_log) : Chats(g_log)[i].attempt = i - 1
        /\ g_log[1].ev = "generate_llm_response" => g_max_retries = MaxRetries
        /\ \A i \in DOMAIN g_log :
              /\ (g_log[i].ev = "chat" /\ g_log[i].result = "Ok") =>
                    /\ i = Len(g_log)
                    /\ g_pc = "returned"
                    /\ g_result = [ok |-> TRUE, value |-> "response"]
              /\ (g_log[i].ev = "chat" /\ g_log[i].result # "Ok") =>
                    IF g_log[i].attempt + 1 <= g_max_retries
                    THEN /\ i < Len(g_log)
                         /\ g_log[i + 1].ev = "sleep"
                         /\ g_log[i + 1].ms = 1000 * (g_log[i].attempt + 1)
                    ELSE /\ i = Len(g_log)
                         /\ g_pc = "returned"
                         /\ g_result = [ok |-> FALSE,
                                        value |-> g_log[i].result]
              /\ g_log[i].ev = "sleep" =>
                    /\ g_log[i - 1].ev = "chat"
                    /\ g_log[i - 1].result # "Ok"
                    /\ i < Len(g_log) \/ g_pc = "loop"
        /\ g_pc = "returned" => g_log[Len(g_log)].ev = "chat"

\* generate_llm_response has made four calls that all failed, the first
\* with another error than the last, slept 1 s, 2 s and 3 s between them and
\* returned the last error.
RetryHelperWitness ==
    /\ g_pc = "returned"
    /\ g_log[1].ev = "generate_llm_response"
    /\ Len(Chats(g_log)) = MaxRetries + 1
    /\ Len(g_log) = 2 * MaxRetries + 2
    /\ Chats(g_log)[1].result = "timeout"
    /\ g_result = [ok |-> FALSE, value |-> "http"]
    /\ g_log[Len(g_log) - 1].ms = 1000 * MaxRetries

\* Provider calls one message may take: RetryTake + 1 runs of
\* generate_llm_response with MaxRetries + 1 calls each (6 x 4 = 24).
CallsPerMessage == (RetryTake + 1) * (MaxRetries + 1)

\* C33 (Spec): while a reply is generated, every failed provider call but
\* the very last is followed by one sleep, so the calls made for the
\* message are the sleeps plus one: at most 24, in at most 6 runs of
\* generate_llm_response with at most 4 calls each.  A successful call ends
\* the generation with its response as the reply; generation ends without
\* one only after 24 failed calls, and is not entered again for the message.
ProviderCallBound ==
    /\ [](/\ outer_attempt + 1 <= RetryTake + 1
          /\ inner_attempt + 1 <= MaxRetries + 1
          /\ Len(sleeps) + 1 <= CallsPerMessage
          /\ proc_pc = "generate" =>
                Len(sleeps) = outer_attempt * (MaxRetries + 1) + inner_attempt)
    /\ [][proc_pc = "generate" =>
             \/ UNCHANGED <<proc_pc, sleeps, proc_reply>>
             \/ /\ proc_pc' = "generate"
                /\ Len(sleeps') = Len(sleeps) + 1
                /\ proc_reply' = proc_reply
             \/ /\ proc_pc' = "say"
                /\ sleeps' = sleeps
                /\ proc_reply' = "response"
             \/ /\ proc_pc' = "say"
                /\ sleeps' = sleeps
                /\ proc_reply' = "error"
                /\ Len(sleeps) + 1 = CallsPerMessage]_vars
    /\ [][(proc_pc = "say" \/ proc_pc = "send") =>
             /\ proc_pc' # "generate"
             /\ sleeps' = sleeps
             /\ (proc_reply' = proc_reply \/ sent' # sent)
             /\ (sent' # sent =>
                   sent'[Len(sent')].content = proc_reply)]_vars

\* Twenty-three provider calls failed for the message and the
\* twenty-fourth succeeded: its response is the reply about to be spoken.
ProviderCallWitness ==
    /\ proc_pc = "say"
    /\ Len(sleeps) + 1 = CallsPerMessage
    /\ proc_reply = "response"
    /\ proc_msg.sender_id = "B"

AllSelf(q) == \A i \in DOMAIN q : q[i].sender_id = AgentId

\* C34 (SpecQueue): send_message and try_send_message accept a message
\* whatever its sender_id while a slot is free, a self message included, and
\* it is buffered; a buffered message leaves only as the head, through a
\* turn of receive_message or try_receive_message, which hands out a peer
\* message and discards a self message.  With Capacity self messages
\* buffered a try_send_message of a peer message is refused as full while no
\* peer message is buffered.
SelfMessagesTakeSlots ==
    /\ [][(msg_count' = msg_count + 1 /\ Len(queue) < Capacity) =>
             /\ pret'.result = "Ok"
             /\ pret'.msg.content = msg_count'
             /\ queue' = Append(queue, pret'.msg)
             /\ pushed' = Append(pushed, pret'.msg)]_vars
    /\ [][queue' # queue =>
             \/ Len(queue') = Len(queue) + 1 /\ queue = SubSeq(queue', 1, Len(queue))
             \/ /\ queue' = Tail(queue)
                /\ \E c \in Clients :
                      cpc[c] \in {"recv_wait", "try_recv"} /\ lock_holder = c
                /\ IF Head(queue).sender_id = AgentId
                   THEN popped' = popped
                   ELSE popped' = Append(popped, Head(queue))]_vars
    /\ [][(/\ msg_count' = msg_count + 1
           /\ pret'.op = "try_send_message"
           /\ pret'.msg.sender_id # AgentId
           /\ Len(queue) = Capacity
           /\ AllSelf(queue)) =>
             /\ pret'.result = FullError
             /\ queue' = queue
             /\ PeerMessages(queue') = <<>>]_vars

\* Nothing was consumed, the buffer holds Capacity self messages and the
\* try_send_message of a peer message has just been refused.
SelfMessagesWitness ==
    /\ Len(queue) = Capacity
    /\ AllSelf(queue)
    /\ popped = <<>>
    /\ pret.op = "try_send_message"
    /\ pret.result = FullError
    /\ pret.msg.sender_id = "B"
    /\ msg_count = Capacity + 1

\* C35 (Spec): while main has not returned, no receive_message call and no
\* try_send_message call reports ChannelClosed, and the LLM task ends only
\* on a failed send.  Once the intake task has ended, a pop finds what is
\* still buffered; with the buffer empty the pop is suspended, cannot take
\* a step, and the task stays in it, running.
ClosedUnreachable ==
    /\ [](/\ \A c \in Callers : cret[c].kind # "ChannelClosed"
          /\ intake_try # "ChannelClosed"
          /\ proc_result = "Err" =>
                sent[Len(sent)].outcome = "SendError"
          /\ (intake_pc = "done" /\ proc_pc = "pop"
                /\ cpc["llm"] = "recv_wait" /\ main_pc = "joining") =>
                (ENABLED ProcRecv) = (queue # <<>>))
    /\ [][(intake_pc = "done" /\ proc_pc = "pop" /\ queue = <<>>) =>
             /\ proc_pc' = "pop"
             /\ cpc'["llm"] = cpc["llm"]
             /\ queue' = <<>>
             /\ proc_result' = "running"
             /\ main_pc' = "joining"]_vars

\* The intake task has ended on a receive error; the two peer messages it
\* had forwarded were popped and answered, and the LLM task is suspended in
\* receive_message on the empty buffer.
ClosedUnreachableWitness ==
    /\ intake_pc = "done"
    /\ intake_result = "Err"
    /\ proc_pc = "pop"
    /\ cpc["llm"] = "recv_wait"
    /\ queue = <<>>
    /\ Len(popped) = 2
    /\ Len(Replies(sent)) = 2
    /\ proc_result = "running"
    /\ main_pc = "joining"

\* C36 (Spec): after the LLM task has ended, the intake task can still
\* receive; each message it forwards is appended while fewer than Capacity
\* are buffered and is refused as full otherwise, and either way the task is
\* back at receive, running.  Nothing leaves the buffer any more, so once
\* it holds Capacity messages it holds them for good.  The intake task ends
\* only on a receive error.
IntakeAfterProcessingFailure ==
    /\ [](/\ (proc_pc = "done" /\ intake_pc = "receive"
                /\ msg_count < MaxMessages /\ main_pc = "joining") =>
                \A d \in Datagrams : ENABLED IntakeReceive(d)
          /\ intake_result = "Err" => intake_last = "ReceiveError")
    /\ [][proc_pc = "done" =>
             /\ Len(queue') >= Len(queue)
             /\ queue = SubSeq(queue', 1, Len(queue))
             /\ Len(queue) = Capacity => queue' = queue
             /\ (intake_pc = "forward" /\ intake_pc' # "forward") =>
                   /\ intake_pc' = "receive"
                   /\ intake_result' = "running"
                   /\ IF Len(queue) < Capacity
                      THEN /\ queue' = Append(queue, intake_msg)
                           /\ intake_try' = "Ok"
                      ELSE /\ queue' = queue
                           /\ intake_try' = FullError]_vars

\* The LLM task ended on the failed send of its greeting; the intake task
\* has since forwarded Capacity messages, had two more refused as full and
\* is receiving.
IntakeAfterFailureWitness ==
    /\ proc_pc = "done"
    /\ proc_result = "Err"
    /\ Len(sent) = 1
    /\ popped = <<>>
    /\ Len(queue) = Capacity
    /\ msg_count = Capacity + 2
    /\ intake_try = FullError
    /\ intake_last = "Ok"
    /\ intake_pc = "receive"
    /\ intake_result = "running"
    /\ main_pc = "joining"

\* The body of a gzip stream is framed: header, stored bytes, trailer.
GzFramed(data) ==
    /\ Len(data) >= Len(GzHeader) + 1
    /\ SubSeq(data, 1, Len(GzHeader)) = GzHeader
    /\ data[Len(data)] = (Len(data) - Len(GzHeader) - 1) % 256

\* The step of receive_message at which a datagram that was read fails:
\* the record, the base64 text, the gzip stream or the UTF-8 of the text;
\* "none" when every step succeeds.
FailureStage(bytes) ==
    LET temp == Deserialize(bytes)
        content == temp.msg.content
        data == Base64Decode(content)
    IN
    IF ~temp.ok THEN "record"
    ELSE IF ~(StartsWith(content, <<72, 52>>)
                \/ StartsWith(content, <<101, 74>>))
    THEN "none"
    ELSE IF ~data.ok THEN "base64"
    ELSE IF ~GzFramed(data.bytes) THEN "gzip"
    ELSE IF ~DecompressContent(data.bytes).ok THEN "utf8"
    ELSE "none"

StagesSeen(log) == {FailureStage(log[i].bytes) : i \in DOMAIN log}

\* C37: every receive_message call that read a datagram returns Ok or
\* DeserializationError, the latter exactly when the record, the base64
\* text, the gzip stream or the UTF-8 of the text is bad, and the intake
\* task answers it by going back to receive.  That holds as well for the
\* node's own output when its uncompressed content, beginning with "H4" or
\* "eJ", is taken for compressed.
PostReadFailuresAreDecodeErrors ==
    /\ c_pc = "datagram" =>
          \A i \in DOMAIN c_out :
             /\ c_out[i].result \in {"Ok", "DeserializationError"}
             /\ (c_out[i].result = "Ok") = (FailureStage(c_out[i].bytes) = "none")
             /\ c_out[i].result # "Ok" =>
                   IntakeOnReceive(c_out[i].result) = "receive"
    /\ (c_pc = "received" /\ ~c_out.ok) =>
          /\ ReceiveResultKind(c_out) = "DeserializationError"
          /\ IntakeOnReceive(ReceiveResultKind(c_out)) = "receive"
          /\ FailureStage(c_wire) \in {"base64", "gzip", "utf8"}
          /\ ~c_env.is_compressed

\* Four datagrams were read and each failed at another step: the record,
\* the base64 text, the gzip stream, the UTF-8 of the decompressed text.
PostReadFailuresWitness ==
    /\ c_pc = "datagram"
    /\ Len(c_out) = 4
    /\ StagesSeen(c_out) = {"record", "base64", "gzip", "utf8"}
    /\ \A i \in DOMAIN c_out : c_out[i].result = "DeserializationError"

\* C38 (SpecCodec): the content of a datagram built in the compressed
\* branch of send_message is the base64 text of the gzip stream, begins
\* with "H4" and is taken for compressed by receive_message; when the
\* receiver's classification differs from what the sender did, the sender
\* had left the message uncompressed and its content begins with "H4" or
\* "eJ".
CompressedAlwaysRecognised ==
    c_pc = "wire" =>
        LET content == Deserialize(c_wire).msg.content IN
        /\ c_env.is_compressed =>
              /\ Deserialize(c_wire).ok
              /\ content = Base64Encode(c_env.compressed_data)
              /\ GzFramed(c_env.compressed_data)
              /\ StartsWith(content, <<72, 52>>)
              /\ LooksCompressed(content)
        /\ LooksCompressed(content) # c_env.is_compressed =>
              /\ ~c_env.is_compressed
              /\ \/ StartsWith(c_in.msg.content, <<72, 52>>)
                 \/ StartsWith(c_in.msg.content, <<101, 74>>)

\* The content "eJa", longer than the threshold 1, went out compressed: the
\* datagram carries base64 text that begins with "H4".
CompressedRecognisedWitness ==
    /\ c_pc = "wire"
    /\ c_in.threshold = 1
    /\ c_in.msg.content = <<101, 74, 97>>
    /\ c_env.is_compressed
    /\ StartsWith(Deserialize(c_wire).msg.content, <<72, 52, 115, 73>>)

\* C39 (Spec): the LLM task has at most one message in hand, the one popped
\* last, and is not inside receive_message while it generates, speaks or
\* sends; whenever it is at the top of its loop or inside receive_message,
\* every message popped so far has had its reply passed to send_message.
\* Hence the i-th reply passed to send_message answers the i-th popped
\* message.
SequentialProcessing ==
    /\ [](/\ (proc_pc = "generate" \/ proc_pc = "say" \/ proc_pc = "send") =>
                /\ cpc["llm"] = "idle"
                /\ popped # <<>>
                /\ proc_msg = popped[Len(popped)]
                /\ Len(Replies(sent)) = Len(popped) - 1
          /\ (proc_pc = "loop" \/ proc_pc = "pop") =>
                Len(Replies(sent)) = Len(popped)
          /\ \A i \in DOMAIN Replies(sent) :
                /\ i <= Len(popped)
                /\ Replies(sent)[i].reply_to = popped[i].content)
    /\ [][popped' # popped =>
             /\ proc_pc = "pop"
             /\ proc_pc' = "generate"
             /\ Len(popped') = Len(popped) + 1
             /\ Len(Replies(sent)) = Len(popped)]_vars
    /\ [][Replies(sent') # Replies(sent) =>
             /\ proc_pc = "send"
             /\ popped' = popped
             /\ Replies(sent') =
                   Append(Replies(sent), sent'[Len(sent')])
             /\ sent'[Len(sent')].reply_to = popped[Len(popped)].content]_vars

\* The third popped message is being answered while the next one is already
\* buffered; the first two replies are out, in the order of the pops.
SequentialWitness ==
    /\ proc_pc = "generate"
    /\ Len(popped) = 3
    /\ Len(Replies(sent)) = 2
    /\ Replies(sent)[1].reply_to < Replies(sent)[2].reply_to
    /\ queue # <<>>
    /\ inner_attempt = 1

\* C31 (Spec): the group hands the node datagrams of every sender, its own
\* greeting and replies among them.  Whatever arrives, the message the LLM
\* task holds while it generates, speaks or sends is a peer's, every popped
\* message is a peer's, and every reply passed to send_message answers a
\* message that a peer sent.
NoSelfReply ==
    /\ [](/\ (proc_pc = "generate" \/ proc_pc = "say" \/ proc_pc = "send") =>
                /\ proc_msg.sender_id # AgentId
                /\ proc_msg.sender_id \in Senders
          /\ cret["llm"].msg.sender_id # AgentId
          /\ \A i \in DOMAIN popped : popped[i].sender_id # AgentId
          /\ \A i \in DOMAIN sent :
                sent[i].kind = "reply" =>
                   \E j \in DOMAIN pushed :
                      /\ pushed[j].content = sent[i].reply_to
                      /\ pushed[j].sender_id # AgentId)
    /\ [][(sleeps' # sleeps \/ proc_reply' # proc_reply
             \/ say_last' # say_last \/ sent' # sent) =>
             \/ proc_pc = "start"
             \/ proc_pc = "pop" /\ sleeps' = <<>> /\ sent' = sent
             \/ proc_msg.sender_id \in Senders \ {AgentId}]_vars

\* The node's greeting and its one reply both went out; a datagram with its
\* own sender_id arrived after each and was forwarded to the queue, B's
\* message was the only one popped and answered, and the queue is empty.
NoSelfReplyWitness ==
    /\ SenderIds(pushed) = <<"A", "B", "A">>
    /\ SenderIds(popped) = <<"B">>
    /\ Len(sent) = 2
    /\ sent[2].kind = "reply"
    /\ sent[2].reply_to = popped[1].content
    /\ sent[2].outcome = "Ok"
    /\ queue = <<>>
    /\ proc_pc = "pop"
    /\ cpc["llm"] = "recv_wait"

Accepted(n) ==
    \E j \in DOMAIN pushed :
        pushed[j].content = n /\ pushed[j].sender_id # AgentId

Answered(n) ==
    /\ \E j \in DOMAIN popped : popped[j].content = n
    /\ \E i \in DOMAIN sent :
          /\ sent[i].kind = "reply"
          /\ sent[i].reply_to = n
          /\ sent[i].outcome = "Ok"
    /\ \A j \in DOMAIN queue : queue[j].content # n

\* C40 (SpecLive): when the LLM task keeps being scheduled and each call it
\* makes returns, with every send succeeding, a peer message accepted by
\* try_send_message is eventually popped, answered by a reply that was
\* sent, and gone from the queue.
ReplyLiveness ==
    \A n \in 1..MaxMessages : Accepted(n) ~> Answered(n)

\* All of the datagrams were peer messages; the two that fitted into the
\* queue behind the first were answered in turn, the last after waiting
\* for the replies before it.
ReplyLivenessWitness ==
    /\ Len(pushed) >= 3
    /\ AllSelf(pushed) = FALSE
    /\ \A j \in DOMAIN pushed :
          pushed[j].sender_id # AgentId => Answered(pushed[j].content)
    /\ Len(Replies(sent)) >= 3
    /\ proc_pc = "pop"

=============================================================================
